---- MODULE Spec2Model ----
(***************************************************************************)
(* Model of the type caster (cast_row_types) and the dataset validator     *)
(* (validate_dataset) of src/src/research_data_lib.py.                     *)
(*                                                                         *)
(* Python values are tagged records:                                       *)
(*   [t |-> "none"]                       None                             *)
(*   [t |-> "str",  s |-> <<chars>>]      text, one 1-character string per  *)
(*                                        character                        *)
(*   [t |-> "int",  n |-> i]              int                              *)
(*   [t |-> "bool", b |-> TRUE/FALSE]     bool (a subclass of int)         *)
(*   [t |-> "float", neg, ip, fr]         finite float: sign, integer part *)
(*                                        and fraction digits (no trailing *)
(*                                        zero)                            *)
(*   [t |-> "float", neg, inf |-> TRUE]   float infinity                   *)
(*   [t |-> "datetime", y, m, d]          datetime at midnight             *)
(* A dict is a function from its key set to values.                        *)
(***************************************************************************)
EXTENDS Integers, Sequences, FiniteSets, TLC

VARIABLES
    pc,        \* position of the caller: which call has returned
    row,       \* the row object handed to cast_row_types
    type_map,  \* the type map handed to cast_row_types
    out,       \* the dict returned by cast_row_types (first call)
    out2,      \* the dict returned by casting `out` again with type_map
    raised,    \* the exception that escaped the last call, "none" if none
    rows,      \* the dataset handed to validate_dataset
    rules,     \* the rules handed to validate_dataset
    issues,    \* the list returned by validate_dataset
    issues2,   \* the list returned by a second call on the same rows and rules
    is_valid,  \* ValidationReport(issues).is_valid
    markdown,  \* ValidationReport(issues).to_markdown(), as characters
    df,        \* the DataFrame handed to Pipeline.run
    steps,     \* Pipeline.steps
    history,   \* Pipeline.history
    run_out,   \* the DataFrame returned by Pipeline.run
    runs,      \* the number of calls of Pipeline.run made
    ds_rows,   \* Dataset._rows
    ds_cleaned,\* Dataset._cleaned
    snapshot,  \* Dataset.snapshot() taken before the last clean_headers call
    cleans     \* the number of calls of Dataset.clean_headers made

castVars == <<row, type_map, out, out2>>
validateVars == <<rows, rules, issues, issues2>>
reportVars == <<is_valid, markdown>>
pipeVars == <<df, steps, history, run_out, runs>>
datasetVars == <<ds_rows, ds_cleaned, snapshot, cleans>>

vars == <<pc, raised, castVars, validateVars, reportVars, pipeVars, datasetVars>>

(***************************************************************************)
(* Values                                                                  *)
(***************************************************************************)
NoneV == [t |-> "none"]
StrV(s) == [t |-> "str", s |-> s]
IntV(n) == [t |-> "int", n |-> n]
BoolV(b) == [t |-> "bool", b |-> b]
FloatV(neg, ip, fr) == [t |-> "float", neg |-> neg, ip |-> ip, fr |-> fr]
InfV(neg) == [t |-> "float", neg |-> neg, inf |-> TRUE]
DateV(y, m, d) == [t |-> "datetime", y |-> y, m |-> m, d |-> d]

IsInf(v) == v.t = "float" /\ "inf" \in DOMAIN v

\* an integer beyond the range of a double: 10 ** HugeIntZeros
HugeIntZeros == 309
HugeIntV == [t |-> "int", huge |-> TRUE]
IsHuge(v) == v.t = "int" /\ "huge" \in DOMAIN v

(***************************************************************************)
(* Text: str.strip, str.lower                                              *)
(***************************************************************************)
UpperChars == <<"A","B","C","D","E","F","G","H","I","J","K","L","M",
                "N","O","P","Q","R","S","T","U","V","W","X","Y","Z">>
LowerChars == <<"a","b","c","d","e","f","g","h","i","j","k","l","m",
                "n","o","p","q","r","s","t","u","v","w","x","y","z">>
DigitChars == <<"0","1","2","3","4","5","6","7","8","9">>

IsSpace(c) == c \in {" ", "\t", "\n"}
IsDigit(c) == \E i \in 1..10 : DigitChars[i] = c
DigitVal(c) == (CHOOSE i \in 1..10 : DigitChars[i] = c) - 1

LowerChar(c) ==
    IF \E i \in 1..26 : UpperChars[i] = c
    THEN LowerChars[CHOOSE i \in 1..26 : UpperChars[i] = c]
    ELSE c

lower(s) == [i \in 1..Len(s) |-> LowerChar(s[i])]

RECURSIVE lstrip(_)
lstrip(s) == IF s # <<>> /\ IsSpace(Head(s)) THEN lstrip(Tail(s)) ELSE s

RECURSIVE rstrip(_)
rstrip(s) ==
    IF s # <<>> /\ IsSpace(s[Len(s)]) THEN rstrip(SubSeq(s, 1, Len(s) - 1)) ELSE s

strip(s) == rstrip(lstrip(s))

AllDigits(s) == \A i \in 1..Len(s) : IsDigit(s[i])

\* value of a digit string, most significant digit first
RECURSIVE DigitsVal(_)
DigitsVal(s) ==
    IF s = <<>> THEN 0
    ELSE 10 * DigitsVal(SubSeq(s, 1, Len(s) - 1)) + DigitVal(s[Len(s)])

\* position of the first occurrence of character c in s, 0 if none
FindChar(s, c) ==
    IF \E i \in 1..Len(s) : s[i] = c
    THEN CHOOSE i \in 1..Len(s) : s[i] = c /\ \A j \in 1..(i - 1) : s[j] # c
    ELSE 0

\* decimal text of a natural number
RECURSIVE NatText(_)
NatText(n) ==
    IF n < 10 THEN <<DigitChars[n + 1]>>
    ELSE NatText(n \div 10) \o <<DigitChars[(n % 10) + 1]>>

(***************************************************************************)
(* float(): decimal text to the nearest IEEE-754 double.  A double is named *)
(* by the decimal numeral it was read from, which is exact up to 15        *)
(* significant digits; beyond that the model decides, digit by digit,      *)
(* whether the nearest double is an integer.                               *)
(***************************************************************************)
MantissaBits == 53

DigitAt(ds, i) == IF i <= Len(ds) THEN ds[i] ELSE 0

\* the fraction digits of 2^(-54), half the spacing of the doubles in [1/2, 1):
\* 2^(-54) = 0.000000000000000055511151231257827021181583404541015625
HalfUlpBelowOne ==
    <<0,0,0,0,0,0,0,0,0,0,0,0,0,0,0,0,5,5,5,1,1,1,5,1,2,3,1,
      2,5,7,8,2,7,0,2,1,1,8,1,5,8,3,4,0,4,5,4,1,0,1,5,6,2,5>>

\* digits of 2 * (0.ds), for 0.ds < 1/2 ending in the digit 5
Twice(ds) ==
    CHOOSE r \in { [i \in 1..(Len(d) - 1) |->
                      (2 * d[i] + (IF d[i + 1] >= 5 THEN 1 ELSE 0)) % 10] : d \in {ds} } :
        TRUE

\* fraction digits of 2^(e - MantissaBits), e >= -1
RECURSIVE HalfUlpAt(_)
HalfUlpAt(e) == IF e = -1 THEN HalfUlpBelowOne ELSE Twice(HalfUlpAt(e - 1))

\* fraction digits of 1 - 0.ds (ds ends in a non-zero digit)
OneMinus(ds) == [i \in 1..Len(ds) |-> IF i = Len(ds) THEN 10 - ds[i] ELSE 9 - ds[i]]

\* 0.a < 0.b as decimal fractions
LessFrac(a, b) ==
    LET n == IF Len(a) > Len(b) THEN Len(a) ELSE Len(b)
    IN  \E i \in 1..n : /\ DigitAt(a, i) < DigitAt(b, i)
                        /\ \A j \in 1..(i - 1) : DigitAt(a, j) = DigitAt(b, j)

RECURSIVE Log2Floor(_)
Log2Floor(n) == IF n < 2 THEN 0 ELSE 1 + Log2Floor(n \div 2)

RECURSIVE DropTrailingZeros(_)
DropTrailingZeros(ds) ==
    IF ds # <<>> /\ ds[Len(ds)] = 0
    THEN DropTrailingZeros(SubSeq(ds, 1, Len(ds) - 1))
    ELSE ds

\* the integer parts the float model reads are below 2^MaxExponent
MaxExponent == 10

\* half the spacing of the doubles in [2^e, 2^(e+1)), for the modelled range
HalfUlpTable ==
    [e \in -1..(MaxExponent - 1) |-> HalfUlpAt(e)]

\* half the spacing of the doubles in [ip, ip + 1), as fraction digits
HalfUlpDigits(ip) == HalfUlpTable[IF ip = 0 THEN -1 ELSE Log2Floor(ip)]

\* the double nearest to ip.fr (round half to even; integers below 2^52 are even)
RoundDouble(neg, ip, fr) ==
    LET f == DropTrailingZeros(fr)
    IN  IF f = <<>> THEN FloatV(neg, ip, <<>>)
        ELSE IF ~LessFrac(f, OneMinus(HalfUlpDigits(ip))) THEN FloatV(neg, ip + 1, <<>>)
        ELSE IF ip > 0 /\ ~LessFrac(HalfUlpDigits(ip), f) THEN FloatV(neg, ip, <<>>)
        ELSE FloatV(neg, ip, f)

Ok(v) == [exc |-> "none", val |-> v]
Exc(e) == [exc |-> e]

InfTexts == { <<"i","n","f">>, <<"i","n","f","i","n","i","t","y">> }

\* float(<str>): surrounding whitespace, a sign, digits with an optional point,
\* or inf/infinity in any case (exponent and underscore forms are not modelled)
FloatOfDigits(neg, ipt, frt) ==
    IF Len(ipt) + Len(frt) > 0 /\ AllDigits(ipt) /\ AllDigits(frt)
    THEN Ok(RoundDouble(neg, DigitsVal(ipt), [i \in 1..Len(frt) |-> DigitVal(frt[i])]))
    ELSE Exc("ValueError")

FloatOfBody(neg, body) ==
    IF lower(body) \in InfTexts THEN Ok(InfV(neg))
    ELSE LET dot == FindChar(body, ".")
         IN  FloatOfDigits(neg,
                           IF dot = 0 THEN body ELSE SubSeq(body, 1, dot - 1),
                           IF dot = 0 THEN <<>> ELSE SubSeq(body, dot + 1, Len(body)))

FloatOfText(s) ==
    LET u == strip(s)
    IN  FloatOfBody(u # <<>> /\ Head(u) = "-",
                    IF u # <<>> /\ Head(u) \in {"+", "-"} THEN Tail(u) ELSE u)

Abs(n) == IF n < 0 THEN -n ELSE n

\* float(x)
PyFloat(x) ==
    CASE x.t = "str"   -> FloatOfText(x.s)
      [] x.t = "int"   -> IF IsHuge(x) THEN Exc("OverflowError")
                          ELSE Ok(FloatV(x.n < 0, Abs(x.n), <<>>))
      [] x.t = "bool"  -> Ok(FloatV(FALSE, IF x.b THEN 1 ELSE 0, <<>>))
      [] x.t = "float" -> Ok(x)
      [] OTHER         -> Exc("TypeError")

\* int(<float>): truncation toward zero
PyIntOfFloatRounded(f) ==
    IF IsInf(f) THEN Exc("OverflowError")
    ELSE LET m == IF f.fr # <<>> /\ f.fr[1] >= 5 THEN f.ip + 1 ELSE f.ip
         IN  Ok(IntV(IF f.neg THEN -m ELSE m))

PyIntOfFloat(f) ==
    IF IsInf(f) THEN Exc("OverflowError")
    ELSE Ok(IntV(IF f.neg THEN -f.ip ELSE f.ip))

\* str(x) for a non-null x
PyStr(x) ==
    CASE x.t = "str"   -> x.s
      [] x.t = "int"   -> IF IsHuge(x) THEN <<"1">> \o [i \in 1..HugeIntZeros |-> "0"]
                          ELSE (IF x.n < 0 THEN <<"-">> ELSE <<>>) \o NatText(Abs(x.n))
      [] x.t = "bool"  -> IF x.b THEN <<"T","r","u","e">> ELSE <<"F","a","l","s","e">>
      [] x.t = "float" ->
            (IF x.neg THEN <<"-">> ELSE <<>>) \o
            (IF IsInf(x) THEN <<"i","n","f">>
             ELSE NatText(x.ip) \o <<".">> \o
                  (IF x.fr = <<>> THEN <<"0">>
                   ELSE [i \in 1..Len(x.fr) |-> DigitChars[x.fr[i] + 1]]))
      [] x.t = "datetime" ->
            NatText(x.y) \o <<"-">> \o
            (IF x.m < 10 THEN <<"0">> ELSE <<>>) \o NatText(x.m) \o <<"-">> \o
            (IF x.d < 10 THEN <<"0">> ELSE <<>>) \o NatText(x.d) \o
            <<" ","0","0",":","0","0",":","0","0">>
      [] OTHER -> <<"N","o","n","e">>

(***************************************************************************)
(* datetime.strptime(text, "%Y-%m-%d")                                     *)
(***************************************************************************)
IsLeap(y) == (y % 4 = 0 /\ y % 100 # 0) \/ y % 400 = 0

DaysIn(y, m) ==
    IF m = 2 THEN (IF IsLeap(y) THEN 29 ELSE 28)
    ELSE IF m \in {4, 6, 9, 11} THEN 30 ELSE 31

\* %m: 1[0-2]|0[1-9]|[1-9]
MonthField(s) == Len(s) \in {1, 2} /\ AllDigits(s) /\ DigitsVal(s) \in 1..12

\* %d: 3[01]|[12]\d|0[1-9]|[1-9]| [1-9]
DayField(s) ==
    \/ Len(s) \in {1, 2} /\ AllDigits(s) /\ DigitsVal(s) \in 1..31
    \/ Len(s) = 2 /\ s[1] = " " /\ IsDigit(s[2]) /\ s[2] # "0"

strptime(s) ==
    LET rest == SubSeq(s, 6, Len(s))
        dash == FindChar(rest, "-")
        mt   == SubSeq(rest, 1, dash - 1)
        dt   == SubSeq(rest, dash + 1, Len(rest))
        y    == DigitsVal(SubSeq(s, 1, 4))
        m    == DigitsVal(mt)
        d    == DigitsVal(strip(dt))
    IN  IF /\ Len(s) >= 8
           /\ AllDigits(SubSeq(s, 1, 4))
           /\ s[5] = "-"
           /\ dash > 0
           /\ MonthField(mt)
           /\ DayField(dt)
           /\ y >= 1
           /\ d <= DaysIn(y, m)
        THEN Ok(DateV(y, m, d))
        ELSE Exc("ValueError")

(***************************************************************************)
(* cast_row_types                                                          *)
(***************************************************************************)
NullTokens == { <<>>, <<"n","a">>, <<"n","/","a">>, <<"n","u","l","l">> }

to_none_if_blank_unstripped(x) ==
    IF x.t = "none" THEN NoneV
    ELSE IF x.t = "str" /\ lower(x.s) \in NullTokens THEN NoneV
    ELSE x

to_none_if_blank(x) ==
    IF x.t = "none" THEN NoneV
    ELSE IF x.t = "str" /\ lower(strip(x.s)) \in NullTokens THEN NoneV
    ELSE x

TrueTokens == { <<"t","r","u","e">>, <<"y","e","s">>, <<"y">>, <<"1">> }
FalseTokens == { <<"f","a","l","s","e">>, <<"n","o">>, <<"n">>, <<"0">> }

to_bool_case_sensitive(x) ==
    IF x.t = "bool" THEN Ok(x)
    ELSE IF x.t = "none" THEN Ok(NoneV)
    ELSE LET s == strip(PyStr(x))
         IN  IF s \in TrueTokens THEN Ok(BoolV(TRUE))
             ELSE IF s \in FalseTokens THEN Ok(BoolV(FALSE))
             ELSE Exc("ValueError")

to_bool(x) ==
    IF x.t = "bool" THEN Ok(x)
    ELSE IF x.t = "none" THEN Ok(NoneV)
    ELSE LET s == lower(strip(PyStr(x)))
         IN  IF s \in TrueTokens THEN Ok(BoolV(TRUE))
             ELSE IF s \in FalseTokens THEN Ok(BoolV(FALSE))
             ELSE Exc("ValueError")

\* the labels of the form datetime:<fmt>; the one format modelled is %Y-%m-%d
DatetimeLabels == {"datetime:%Y-%m-%d"}

\* the body of the try block: the conversion chosen by the label
Convert(tlabel, raw) ==
    IF tlabel = "int" THEN
        LET Truncated(f) == IF f.exc # "none" THEN f ELSE PyIntOfFloat(f.val)
        IN  Truncated(PyFloat(raw))
    ELSE IF tlabel = "float" THEN PyFloat(raw)
    ELSE IF tlabel = "bool" THEN to_bool(raw)
    ELSE IF tlabel \in DatetimeLabels THEN strptime(PyStr(raw))
    ELSE Exc("ValueError")

\* except Exception: every exception a conversion raises is caught
CatchesOnlyTypeError(e) == e = "TypeError"
Catches(e) == TRUE

\* one pass of the loop body for a column that is in the row
CastCellNoneOnFailure(x, tlabel) ==
    LET raw == to_none_if_blank(x)
    IN  IF tlabel = "str" THEN Ok(IF raw.t = "none" THEN NoneV ELSE StrV(PyStr(raw)))
        ELSE IF raw.t = "none" THEN Ok(NoneV)
        ELSE LET Caught(r) == IF r.exc = "none" THEN r
                              ELSE IF Catches(r.exc) THEN Ok(NoneV)
                              ELSE r
             IN  Caught(Convert(tlabel, raw))

CastCell(x, tlabel) ==
    LET raw == to_none_if_blank(x)
    IN  IF tlabel = "str" THEN Ok(IF raw.t = "none" THEN NoneV ELSE StrV(PyStr(raw)))
        ELSE IF raw.t = "none" THEN Ok(NoneV)
        ELSE LET Caught(r) == IF r.exc = "none" THEN r
                              ELSE IF Catches(r.exc) THEN Ok(raw)
                              ELSE r
             IN  Caught(Convert(tlabel, raw))

\* a type map is the sequence of its items <<column, label>>, in dict order
Keys(items) == { items[i][1] : i \in 1..Len(items) }

RECURSIVE CastLoopUnguarded(_, _, _)
CastLoopUnguarded(o, tm, i) ==
    IF i > Len(tm) THEN [exc |-> "none", out |-> o]
    ELSE LET col == tm[i][1]
             tlabel == tm[i][2]
         IN  IF col \notin DOMAIN o THEN [exc |-> "KeyError", out |-> o]
             ELSE LET Store(r) ==
                        IF r.exc # "none" THEN [exc |-> r.exc, out |-> o]
                        ELSE CastLoopUnguarded([o EXCEPT ![col] = r.val], tm, i + 1)
                  IN  Store(CastCell(o[col], tlabel))

RECURSIVE CastLoop(_, _, _)
CastLoop(o, tm, i) ==
    IF i > Len(tm) THEN [exc |-> "none", out |-> o]
    ELSE LET col == tm[i][1]
             tlabel == tm[i][2]
         IN  IF col \notin DOMAIN o THEN CastLoop(o, tm, i + 1)
             ELSE LET Store(r) ==
                        IF r.exc # "none" THEN [exc |-> r.exc, out |-> o]
                        ELSE CastLoop([o EXCEPT ![col] = r.val], tm, i + 1)
                  IN  Store(CastCell(o[col], tlabel))

\* out = dict(row); the loop; return out
cast_row_types(r, tm) == CastLoop(r, tm, 1)

\* the caller's row object after the call: the loop writes to the copy only
RowAliased(r, tm) == CastLoop(r, tm, 1).out
RowAfterCast(r, tm) == r

(***************************************************************************)
(* Inputs of the caster                                                    *)
(***************************************************************************)
MaxTypeMapLen == 2

CastColumns == {"age", "consent"}

Labels == {"int", "float", "bool", "str", "datetime:%Y-%m-%d", "money"}

TextSamples ==
    { <<"1","9">>, <<"1","9",".","0">>, <<"1","9",".","9">>, <<"-","3",".","7">>,
      <<"2","0","0">>, <<"o","o","p","s">>, <<>>, <<"N","/","A">>,
      <<" ","n","u","l","l"," ">>, <<"Y","e","s">>, <<" ","y","e","s"," ">>,
      <<"n","o">>, <<"T","R","U","E">>, <<"1">>, <<"0">>, <<"n">>,
      <<"2","0","2","4","-","1","0","-","0","1">>,
      <<"2","0","2","4","-","0","2","-","3","0">>,
      <<"0",".","9","9","9","9","9","9","9","9","9","9","9","9","9","9","9","9","9">>,
      <<"i","n","f">>, <<"3",".","5">> }

CellSamples ==
    { StrV(s) : s \in TextSamples } \cup
    { NoneV, IntV(19), IntV(1), BoolV(TRUE), BoolV(FALSE),
      FloatV(FALSE, 3, <<5>>), FloatV(FALSE, 1, <<>>), DateV(2024, 10, 1) }

\* the second column of a row draws from a few cells only
ConsentSamples ==
    { StrV(<<"Y","e","s">>), StrV(<<"N","/","A">>), StrV(<<"o","o","p","s">>), IntV(1) }

RowsOver(cols, cells) == UNION { [ks -> cells] : ks \in SUBSET cols }

CastRows ==
    { r \in RowsOver(CastColumns, CellSamples) :
        "consent" \in DOMAIN r => r["consent"] \in ConsentSamples }

\* the type maps over cols: item sequences without a repeated column
TypeMapsOver(cols, labels, n) ==
    { tm \in UNION { [1..k -> cols \X labels] : k \in 0..n } :
        \A i, j \in 1..Len(tm) : i # j => tm[i][1] # tm[j][1] }

\* a type map may also name a column that no row has
AbsentColumn == "joined"

CastTypeMaps ==
    { tm \in TypeMapsOver(CastColumns \cup {AbsentColumn}, Labels, MaxTypeMapLen) :
        \A i \in 1..Len(tm) : tm[i][1] = AbsentColumn => tm[i][2] \in DatetimeLabels }

EmptyRow == [c \in {} |-> NoneV]

(***************************************************************************)
(* The caller of cast_row_types: one call, then a second call on its       *)
(* result with the same type map.                                          *)
(***************************************************************************)
\* the state of a caller that has built no report and no pipeline
NoReport == is_valid = FALSE /\ markdown = <<>>

NoPipeline == df = <<>> /\ steps = <<>> /\ history = <<>> /\ run_out = <<>> /\ runs = 0

NoDataset == ds_rows = <<>> /\ ds_cleaned = FALSE /\ snapshot = <<>> /\ cleans = 0

InitCast ==
    /\ pc = "ready"
    /\ row \in CastRows
    /\ type_map \in CastTypeMaps
    /\ out = EmptyRow
    /\ out2 = EmptyRow
    /\ raised = "none"
    /\ rows = <<>>
    /\ rules = <<>>
    /\ issues = <<>>
    /\ issues2 = <<>>
    /\ NoReport
    /\ NoPipeline
    /\ NoDataset

CastRow ==
    /\ pc = "ready"
    /\ \E r \in {cast_row_types(row, type_map)} :
           /\ raised' = r.exc
           /\ out' = IF r.exc = "none" THEN r.out ELSE out
           /\ pc' = IF r.exc = "none" THEN "cast" ELSE "raised"
    /\ row' = RowAfterCast(row, type_map)
    /\ UNCHANGED <<type_map, out2, validateVars, reportVars, pipeVars, datasetVars>>

CastAgain ==
    /\ pc = "cast"
    /\ \E r \in {cast_row_types(out, type_map)} :
           /\ raised' = r.exc
           /\ out2' = IF r.exc = "none" THEN r.out ELSE out2
           /\ pc' = IF r.exc = "none" THEN "recast" ELSE "raised"
    /\ out' = RowAfterCast(out, type_map)
    /\ UNCHANGED <<row, type_map, validateVars, reportVars, pipeVars, datasetVars>>

NextCast == CastRow \/ CastAgain

SpecCast == InitCast /\ [][NextCast]_vars

(***************************************************************************)
(* Python comparisons                                                      *)
(***************************************************************************)
IsNumber(v) == v.t \in {"int", "bool", "float"}

\* a finite number as <<sign, integer part, fraction digits>>; True is 1
NumKey(v) ==
    CASE v.t = "int"  -> <<v.n < 0, Abs(v.n), <<>> >>
      [] v.t = "bool" -> <<FALSE, IF v.b THEN 1 ELSE 0, <<>> >>
      [] OTHER        -> <<v.neg /\ (v.ip # 0 \/ v.fr # <<>>), v.ip, v.fr>>

\* a == b
PyEq(a, b) ==
    IF IsNumber(a) /\ IsNumber(b)
    THEN IF IsInf(a) \/ IsInf(b) THEN IsInf(a) /\ IsInf(b) /\ a.neg = b.neg
         ELSE IF IsHuge(a) \/ IsHuge(b) THEN IsHuge(a) /\ IsHuge(b)
         ELSE NumKey(a) = NumKey(b)
    ELSE a = b

\* the largest integer <= v and the smallest integer >= v, v finite
FloorOf(v) ==
    LET k == NumKey(v)
    IN  IF k[1] THEN (IF k[3] = <<>> THEN -k[2] ELSE -k[2] - 1) ELSE k[2]

CeilOf(v) ==
    LET k == NumKey(v)
    IN  IF k[1] THEN -k[2] ELSE (IF k[3] = <<>> THEN k[2] ELSE k[2] + 1)

\* v < n and v > n for a number v and an int n
NumLessOrEqual(v, n) ==
    IF IsInf(v) THEN v.neg ELSE IF IsHuge(v) THEN FALSE ELSE FloorOf(v) <= n

NumLess(v, n) == IF IsInf(v) THEN v.neg ELSE IF IsHuge(v) THEN FALSE ELSE FloorOf(v) < n

NumGreaterOrEqual(v, n) ==
    IF IsInf(v) THEN ~v.neg ELSE IF IsHuge(v) THEN TRUE ELSE CeilOf(v) >= n

NumGreater(v, n) == IF IsInf(v) THEN ~v.neg ELSE IF IsHuge(v) THEN TRUE ELSE CeilOf(v) > n

\* v in <dict or set>: membership by ==
PyIn(v, S) == \E w \in S : PyEq(v, w)

(***************************************************************************)
(* re.fullmatch, for the patterns the rule sets use                        *)
(***************************************************************************)
Patterns == {"[0-9]+"}

\* re.match: the pattern matches at the start of s
prefixmatch(pattern, s) ==
    CASE pattern = "[0-9]+" -> s # <<>> /\ IsDigit(s[1])

fullmatch(pattern, s) ==
    CASE pattern = "[0-9]+" -> s # <<>> /\ AllDigits(s)

(***************************************************************************)
(* validate_dataset                                                        *)
(* rules is the sequence of its items <<column, spec>>, and a spec the     *)
(* sequence of its items <<rule key, constraint>>, both in dict order.     *)
(***************************************************************************)
Has(d, k) == \E i \in 1..Len(d) : d[i][1] = k

Get(d, k, default) ==
    IF Has(d, k) THEN d[CHOOSE i \in 1..Len(d) : d[i][1] = k][2] ELSE default

\* row.get(col, None)
RowGet(r, col) == IF col \in DOMAIN r THEN r[col] ELSE NoneV

is_null_unstripped(x) ==
    \/ x.t = "none"
    \/ x.t = "str" /\ lower(x.s) \in NullTokens

is_null(x) ==
    \/ x.t = "none"
    \/ x.t = "str" /\ lower(strip(x.s)) \in NullTokens

\* type_map: the columns whose spec has a type label, in rules order
RECURSIVE TypeMapOf(_)
TypeMapOf(rl) ==
    IF rl = <<>> THEN <<>>
    ELSE (IF Has(Head(rl)[2], "type")
          THEN << <<Head(rl)[1], Get(Head(rl)[2], "type", "")>> >>
          ELSE <<>>) \o TypeMapOf(Tail(rl))

\* casted_rows: each row cast with the type map, or copied when there is none
CastedRows(rs, rl) ==
    LET tm == TypeMapOf(rl)
    IN  [i \in 1..Len(rs) |->
            IF tm # <<>> THEN cast_row_types(rs[i], tm)
            ELSE [exc |-> "none", out |-> rs[i]]]

Issue(idx, col, rule, value, message) ==
    [row_idx |-> idx, column |-> col, rule |-> rule, value |-> value,
     message |-> message]

Msg(fmt, args) == [fmt |-> fmt, args |-> args]
LabelArg(tlabel) == [t |-> "label", s |-> tlabel]

\* isinstance checks that let a text pass under every label
TypeOkTextAccepted(tlabel, v) ==
    IF v.t = "str" THEN TRUE
    ELSE IF tlabel = "int" THEN v.t \in {"int", "bool"}
    ELSE IF tlabel = "float" THEN v.t \in {"float", "int", "bool"}
    ELSE IF tlabel = "bool" THEN v.t = "bool"
    ELSE IF tlabel = "str" THEN v.t \in {"none", "str"}
    ELSE IF tlabel \in DatetimeLabels THEN v.t = "datetime"
    ELSE TRUE

\* isinstance checks of the type rule
TypeOk(tlabel, v) ==
    IF tlabel = "int" THEN v.t \in {"int", "bool"}
    ELSE IF tlabel = "float" THEN v.t \in {"float", "int", "bool"}
    ELSE IF tlabel = "bool" THEN v.t = "bool"
    ELSE IF tlabel = "str" THEN v.t \in {"none", "str"}
    ELSE IF tlabel \in DatetimeLabels THEN v.t = "datetime"
    ELSE TRUE

When(cond, issue) == IF cond THEN <<issue>> ELSE <<>>

\* required: the column must exist and be non-null (reported with the raw
\* value, None when the column is absent)
RequiredCheckNullAccepted(idx, raw_row, col, spec) ==
    When(Get(spec, "required", FALSE) /\ col \notin DOMAIN raw_row,
         Issue(idx, col, "required", RowGet(raw_row, col),
               Msg("Required column missing or null.", <<>>)))

RequiredCheck(idx, raw_row, col, spec) ==
    When(Get(spec, "required", FALSE)
            /\ (col \notin DOMAIN raw_row \/ is_null(RowGet(raw_row, col))),
         Issue(idx, col, "required", RowGet(raw_row, col),
               Msg("Required column missing or null.", <<>>)))

\* not_null: a present raw value cannot be null
NotNullCheckUnguarded(idx, raw_row, col, spec) ==
    When(Get(spec, "not_null", FALSE) /\ is_null(RowGet(raw_row, col)),
         Issue(idx, col, "not_null", RowGet(raw_row, col),
               Msg("Value cannot be null.", <<>>)))

NotNullCheck(idx, raw_row, col, spec) ==
    When(col \in DOMAIN raw_row /\ Get(spec, "not_null", FALSE)
            /\ is_null(RowGet(raw_row, col)),
         Issue(idx, col, "not_null", RowGet(raw_row, col),
               Msg("Value cannot be null.", <<>>)))

\* type check (post-cast), reported with the raw value
TypeCheckOnRaw(idx, rawv, v, col, spec) ==
    When(Has(spec, "type") /\ ~TypeOk(Get(spec, "type", ""), rawv),
         Issue(idx, col, "type", rawv,
               Msg("Expected {tlabel}.", <<LabelArg(Get(spec, "type", ""))>>)))

TypeCheck(idx, rawv, v, col, spec) ==
    When(Has(spec, "type") /\ ~TypeOk(Get(spec, "type", ""), v),
         Issue(idx, col, "type", rawv,
               Msg("Expected {tlabel}.", <<LabelArg(Get(spec, "type", ""))>>)))

\* numeric range checks
RangeChecks(idx, v, col, spec) ==
    When(IsNumber(v) /\ Has(spec, "min") /\ NumLess(v, Get(spec, "min", 0)),
         Issue(idx, col, "min", v,
               Msg("Value {v} < min {min}.", <<v, IntV(Get(spec, "min", 0))>>)))
    \o
    When(IsNumber(v) /\ Has(spec, "max") /\ NumGreater(v, Get(spec, "max", 0)),
         Issue(idx, col, "max", v,
               Msg("Value {v} > max {max}.", <<v, IntV(Get(spec, "max", 0))>>)))

\* string length checks
LengthChecks(idx, v, col, spec) ==
    When(v.t = "str" /\ Has(spec, "len_min") /\ Len(v.s) < Get(spec, "len_min", 0),
         Issue(idx, col, "len_min", v,
               Msg("Length {len(v)} < len_min {len_min}.",
                   <<IntV(Len(v.s)), IntV(Get(spec, "len_min", 0))>>)))
    \o
    When(v.t = "str" /\ Has(spec, "len_max") /\ Len(v.s) > Get(spec, "len_max", 0),
         Issue(idx, col, "len_max", v,
               Msg("Length {len(v)} > len_max {len_max}.",
                   <<IntV(Len(v.s)), IntV(Get(spec, "len_max", 0))>>)))

\* allowed set, a null value being looked up like any other
AllowedCheckNullReported(idx, v, col, spec) ==
    When(Has(spec, "allowed") /\ ~PyIn(v, Get(spec, "allowed", {})),
         Issue(idx, col, "allowed", v,
               Msg("Value {v!r} not in allowed set ({len(allowed)} items).",
                   <<v, IntV(Cardinality(Get(spec, "allowed", {})))>>)))

\* allowed set
AllowedCheck(idx, v, col, spec) ==
    When(Has(spec, "allowed") /\ ~is_null(v) /\ ~PyIn(v, Get(spec, "allowed", {})),
         Issue(idx, col, "allowed", v,
               Msg("Value {v!r} not in allowed set ({len(allowed)} items).",
                   <<v, IntV(Cardinality(Get(spec, "allowed", {})))>>)))

\* regex check
RegexCheck(idx, v, col, spec) ==
    When(Has(spec, "regex") /\ v.t = "str" /\ ~is_null(v)
            /\ ~fullmatch(Get(spec, "regex", ""), v.s),
         Issue(idx, col, "regex", v,
               Msg("String does not match required pattern.", <<>>)))

\* the checks of one cell ended at the first failure
CellIssuesFirstOnly(idx, raw_row, crow, col, spec) ==
    LET First(found) == IF found = <<>> THEN <<>> ELSE <<found[1]>>
    IN  First(RequiredCheck(idx, raw_row, col, spec)
              \o NotNullCheck(idx, raw_row, col, spec)
              \o (IF col \notin DOMAIN crow THEN <<>>
                  ELSE TypeCheck(idx, RowGet(raw_row, col), RowGet(crow, col), col, spec)
                       \o RangeChecks(idx, RowGet(crow, col), col, spec)
                       \o LengthChecks(idx, RowGet(crow, col), col, spec)
                       \o AllowedCheck(idx, RowGet(crow, col), col, spec)
                       \o RegexCheck(idx, RowGet(crow, col), col, spec)))

\* the issues of one column of one row, in the order the checks are made;
\* idx is the 0-based row index
CellIssues(idx, raw_row, crow, col, spec) ==
    RequiredCheck(idx, raw_row, col, spec)
    \o NotNullCheck(idx, raw_row, col, spec)
    \o (IF col \notin DOMAIN crow THEN <<>>
        ELSE TypeCheck(idx, RowGet(raw_row, col), RowGet(crow, col), col, spec)
             \o RangeChecks(idx, RowGet(crow, col), col, spec)
             \o LengthChecks(idx, RowGet(crow, col), col, spec)
             \o AllowedCheck(idx, RowGet(crow, col), col, spec)
             \o RegexCheck(idx, RowGet(crow, col), col, spec))

\* the issues of one row: its columns in rules order
RECURSIVE RowIssues(_, _, _, _)
RowIssues(idx, raw_row, crow, rl) ==
    IF rl = <<>> THEN <<>>
    ELSE CellIssues(idx, raw_row, crow, Head(rl)[1], Head(rl)[2])
         \o RowIssues(idx, raw_row, crow, Tail(rl))

\* a row-wise pass that ends at the first row with an issue
RECURSIVE RowWiseUntilIssue(_, _, _, _)
RowWiseUntilIssue(rs, crows, rl, i) ==
    IF i > Len(rs) THEN <<>>
    ELSE IF RowIssues(i - 1, rs[i], crows[i], rl) # <<>>
    THEN RowIssues(i - 1, rs[i], crows[i], rl)
    ELSE RowWiseUntilIssue(rs, crows, rl, i + 1)

\* the row-wise pass: rows i..Len(rs), in order
RECURSIVE RowWise(_, _, _, _)
RowWise(rs, crows, rl, i) ==
    IF i > Len(rs) THEN <<>>
    ELSE RowIssues(i - 1, rs[i], crows[i], rl) \o RowWise(rs, crows, rl, i + 1)

\* a tracking that takes null values for values like any other
RECURSIVE UniqueTrackNullsTracked(_, _, _)
UniqueTrackNullsTracked(crows, col, i) ==
    IF i = 0 THEN [seen |-> {}, dups |-> {}]
    ELSE LET track == UniqueTrackNullsTracked(crows, col, i - 1)
             v     == RowGet(crows[i], col)
         IN  IF col \notin DOMAIN crows[i] THEN track
             ELSE IF \E e \in track.seen : PyEq(v, e[1])
             THEN [track EXCEPT !.dups = @ \cup {i - 1}]
             ELSE [track EXCEPT !.seen = @ \cup {<<v, i - 1>>}]

\* unique_track[col] after rows 1..i: seen is the set of <<value, first index>>
\* and dups the set of later indices
RECURSIVE UniqueTrack(_, _, _)
UniqueTrack(crows, col, i) ==
    IF i = 0 THEN [seen |-> {}, dups |-> {}]
    ELSE LET track == UniqueTrack(crows, col, i - 1)
             v     == RowGet(crows[i], col)
         IN  IF col \notin DOMAIN crows[i] \/ is_null(v) THEN track
             ELSE IF \E e \in track.seen : PyEq(v, e[1])
             THEN [track EXCEPT !.dups = @ \cup {i - 1}]
             ELSE [track EXCEPT !.seen = @ \cup {<<v, i - 1>>}]

\* dup_firsts: the first index of every seen value that equals the raw value
\* of some duplicate row
DupFirstsOmitted(rs, col, track) == {}

DupFirsts(rs, col, track) ==
    { e[2] : e \in { e \in track.seen :
                        \E j \in track.dups : PyEq(RowGet(rs[j + 1], col), e[1]) } }


\* sorted(S) for a set of ints
RECURSIVE Sorted(_)
Sorted(S) ==
    IF S = {} THEN <<>>
    ELSE LET m == CHOOSE x \in S : \A y \in S : x <= y
         IN  <<m>> \o Sorted(S \ {m})

\* uniqueness issues that carry the interpreted value of the row
UniqueIssuesOfInterpreted(rs, crows, col) ==
    LET track == UniqueTrack(crows, col, Len(crows))
        idxs  == Sorted(DupFirsts(rs, col, track) \cup track.dups)
    IN  IF track.dups = {} THEN <<>>
        ELSE [k \in 1..Len(idxs) |->
                Issue(idxs[k], col, "unique", RowGet(crows[idxs[k] + 1], col),
                      Msg("Duplicate value violates uniqueness.", <<>>))]

\* the uniqueness issues of one column
UniqueIssuesOf(rs, crows, col) ==
    LET track == UniqueTrack(crows, col, Len(crows))
        idxs  == Sorted(DupFirsts(rs, col, track) \cup track.dups)
    IN  IF track.dups = {} THEN <<>>
        ELSE [k \in 1..Len(idxs) |->
                Issue(idxs[k], col, "unique", RowGet(rs[idxs[k] + 1], col),
                      Msg("Duplicate value violates uniqueness.", <<>>))]

\* the uniqueness pass: the columns with a true unique key, in rules order
RECURSIVE UniquePass(_, _, _)
UniquePass(rs, crows, rl) ==
    IF rl = <<>> THEN <<>>
    ELSE (IF Get(Head(rl)[2], "unique", FALSE)
          THEN UniqueIssuesOf(rs, crows, Head(rl)[1])
          ELSE <<>>) \o UniquePass(rs, crows, Tail(rl))

\* the caller's rows after the call: casting and checking work on copies
\* (cast_row_types returns a new dict, dict(r) copies)
RowsCastInPlace(rs, rl) == [i \in 1..Len(rs) |-> CastedRows(rs, rl)[i].out]
RowsAfterValidate(rs, rl) == rs

\* a validator that emits the uniqueness issues before the row-wise issues
validate_dataset_unique_first(rs, rl) ==
    LET crows == [i \in 1..Len(rs) |-> CastedRows(rs, rl)[i].out]
    IN  [exc |-> "none",
         issues |-> UniquePass(rs, crows, rl) \o RowWise(rs, crows, rl, 1)]

validate_dataset(rs, rl) ==
    LET Checked(casted) ==
            LET crows == [i \in 1..Len(rs) |-> casted[i].out]
            IN  IF \E i \in 1..Len(rs) : casted[i].exc # "none"
                THEN [exc |-> casted[CHOOSE i \in 1..Len(rs) : casted[i].exc # "none"].exc,
                      issues |-> <<>>]
                ELSE [exc |-> "none",
                      issues |-> RowWise(rs, crows, rl, 1) \o UniquePass(rs, crows, rl)]
    IN  Checked(CastedRows(rs, rl))

(***************************************************************************)
(* Inputs of the validator                                                 *)
(***************************************************************************)
MaxRows == 3

AgeRule(lo, hi) ==
    << <<"type", "int">>, <<"min", lo>>, <<"max", hi>>, <<"required", TRUE>> >>

UniqueRule == << <<"unique", TRUE>> >>

UniqueIntRule == << <<"unique", TRUE>>, <<"type", "int">> >>

RuleSets ==
    { << <<"age", AgeRule(0, 120)>> >>,
      << <<"age", AgeRule(0, 19)>> >>,
      << <<"id", UniqueRule>> >>,
      << <<"id", UniqueIntRule>> >>,
      << <<"age", AgeRule(0, 120)>>, <<"id", UniqueRule>> >>,
      << <<"id", UniqueIntRule>>, <<"age", AgeRule(0, 120)>> >> }

\* the cells a column draws from when it is the one ruled column
AgeSamples ==
    { StrV(<<"1","9">>), StrV(<<"2","0","0">>), StrV(<<"N","/","A">>),
      StrV(<<"o","o","p","s">>), StrV(<<"-","5">>), IntV(25) }

IdSamples ==
    { StrV(<<"1">>), StrV(<<"1",".","0">>), StrV(<<"A","1">>),
      StrV(<<"A","2">>), StrV(<<"n","a">>), IntV(1), BoolV(TRUE) }

\* and when two columns are ruled
FewAgeSamples == { StrV(<<"1","9">>), StrV(<<"2","0","0">>) }

FewIdSamples == { StrV(<<"1">>), StrV(<<"1",".","0">>), StrV(<<"A","1">>) }

SamplesOf(col, rl) ==
    IF col = "age" THEN (IF Len(rl) = 1 THEN AgeSamples ELSE FewAgeSamples)
    ELSE (IF Len(rl) = 1 THEN IdSamples ELSE FewIdSamples)

\* the rows over the ruled columns, each present column drawing from its cells
RowsFor(rl) ==
    UNION { { r \in [ks -> UNION { SamplesOf(c, rl) : c \in ks }] :
                \A c \in ks : r[c] \in SamplesOf(c, rl) } : ks \in SUBSET Keys(rl) }

DatasetsFor(rl) == UNION { [1..n -> RowsFor(rl)] : n \in 0..MaxRows }

(***************************************************************************)
(* The caller of validate_dataset                                          *)
(***************************************************************************)
InitValidate ==
    /\ pc = "vready"
    /\ rules \in RuleSets
    /\ rows \in DatasetsFor(rules)
    /\ issues = <<>>
    /\ issues2 = <<>>
    /\ raised = "none"
    /\ row = EmptyRow
    /\ type_map = <<>>
    /\ out = EmptyRow
    /\ out2 = EmptyRow
    /\ NoReport
    /\ NoPipeline
    /\ NoDataset

Validate ==
    /\ pc = "vready"
    /\ \E r \in {validate_dataset(rows, rules)} :
           /\ raised' = r.exc
           /\ issues' = r.issues
           /\ pc' = IF r.exc = "none" THEN "validated" ELSE "raised"
    /\ rows' = RowsAfterValidate(rows, rules)
    /\ UNCHANGED <<rules, issues2, castVars, reportVars, pipeVars, datasetVars>>

NextValidate == Validate

SpecValidate == InitValidate /\ [][NextValidate]_vars

(***************************************************************************)
(* ValidationReport (src/validators.py).  Text is a sequence of characters. *)
(***************************************************************************)
\* the characters of the column names, rule keys and type labels in use
Text(s) ==
    CASE s = "age" -> <<"a","g","e">>
      [] s = "id" -> <<"i","d">>
      [] s = "code" -> <<"c","o","d","e">>
      [] s = "score" -> <<"s","c","o","r","e">>
      [] s = "consent" -> <<"c","o","n","s","e","n","t">>
      [] s = "joined" -> <<"j","o","i","n","e","d">>
      [] s = "name" -> <<"n","a","m","e">>
      [] s = "price" -> <<"p","r","i","c","e">>
      [] s = "required" -> <<"r","e","q","u","i","r","e","d">>
      [] s = "not_null" -> <<"n","o","t","_","n","u","l","l">>
      [] s = "type" -> <<"t","y","p","e">>
      [] s = "min" -> <<"m","i","n">>
      [] s = "max" -> <<"m","a","x">>
      [] s = "len_min" -> <<"l","e","n","_","m","i","n">>
      [] s = "len_max" -> <<"l","e","n","_","m","a","x">>
      [] s = "allowed" -> <<"a","l","l","o","w","e","d">>
      [] s = "regex" -> <<"r","e","g","e","x">>
      [] s = "unique" -> <<"u","n","i","q","u","e">>
      [] s = "int" -> <<"i","n","t">>
      [] s = "float" -> <<"f","l","o","a","t">>
      [] s = "bool" -> <<"b","o","o","l">>
      [] s = "str" -> <<"s","t","r">>
      [] s = "datetime:%Y-%m-%d" -> <<"d","a","t","e","t","i","m","e",":","%","Y","-","%","m","-","%","d">>
      [] s = "money" -> <<"m","o","n","e","y">>

\* repr(x): a str is quoted, with double quotes when it holds a single quote only
PyRepr(x) ==
    IF x.t = "str"
    THEN LET dq == (\E i \in 1..Len(x.s) : x.s[i] = "'")
                      /\ ~(\E i \in 1..Len(x.s) : x.s[i] = "\"")
         IN  (IF dq THEN <<"\"">> ELSE <<"'">>) \o x.s \o (IF dq THEN <<"\"">> ELSE <<"'">>)
    ELSE PyStr(x)

\* the message of an issue as the f-string builds it
MsgText(m) ==
    CASE m.fmt = "Expected {tlabel}." ->
            <<"E","x","p","e","c","t","e","d"," ">> \o Text(m.args[1].s) \o <<".">>
      [] m.fmt = "Value {v} < min {min}." ->
            <<"V","a","l","u","e"," ">> \o PyStr(m.args[1]) \o <<" ","<"," ","m","i","n"," ">> \o PyStr(m.args[2]) \o <<".">>
      [] m.fmt = "Value {v} > max {max}." ->
            <<"V","a","l","u","e"," ">> \o PyStr(m.args[1]) \o <<" ",">"," ","m","a","x"," ">> \o PyStr(m.args[2]) \o <<".">>
      [] m.fmt = "Length {len(v)} < len_min {len_min}." ->
            <<"L","e","n","g","t","h"," ">> \o PyStr(m.args[1]) \o <<" ","<"," ","l","e","n","_","m","i","n"," ">> \o PyStr(m.args[2]) \o <<".">>
      [] m.fmt = "Length {len(v)} > len_max {len_max}." ->
            <<"L","e","n","g","t","h"," ">> \o PyStr(m.args[1]) \o <<" ",">"," ","l","e","n","_","m","a","x"," ">> \o PyStr(m.args[2]) \o <<".">>
      [] m.fmt = "Value {v!r} not in allowed set ({len(allowed)} items)." ->
            <<"V","a","l","u","e"," ">> \o PyRepr(m.args[1]) \o <<" ","n","o","t"," ","i","n"," ","a","l","l","o","w","e","d"," ","s","e","t"," ","(">> \o PyStr(m.args[2]) \o <<" ","i","t","e","m","s",")",".">>
      [] m.fmt = "Required column missing or null." ->
            <<"R","e","q","u","i","r","e","d"," ","c","o","l","u","m","n"," ","m","i","s","s","i","n","g"," ","o","r"," ","n","u","l","l",".">>
      [] m.fmt = "Value cannot be null." ->
            <<"V","a","l","u","e"," ","c","a","n","n","o","t"," ","b","e"," ","n","u","l","l",".">>
      [] m.fmt = "String does not match required pattern." ->
            <<"S","t","r","i","n","g"," ","d","o","e","s"," ","n","o","t"," ","m","a","t","c","h"," ","r","e","q","u","i","r","e","d"," ","p","a","t","t","e","r","n",".">>
      [] m.fmt = "Duplicate value violates uniqueness." ->
            <<"D","u","p","l","i","c","a","t","e"," ","v","a","l","u","e"," ","v","i","o","l","a","t","e","s"," ","u","n","i","q","u","e","n","e","s","s",".">>

\* "All checks passed " followed by the check-mark character U+2705
SuccessText ==
    <<"A","l","l"," ","c","h","e","c","k","s"," ","p","a","s","s","e","d"," ">> \o <<"U+2705">>

TableHeader == <<"|","R","o","w","|","C","o","l","u","m","n","|","R","u","l","e","|","V","a","l","u","e","|","M","e","s","s","a","g","e","|">>

TableSeparator == <<"|","-","-","|","-","-","|","-","-","|","-","-","|","-","-","|">>

\* f"|{i.row_idx}|{i.column}|{i.rule}|{i.value}|{i.message}|"
TableRow(i) ==
    <<"|">> \o PyStr(IntV(i.row_idx)) \o <<"|">> \o Text(i.column) \o <<"|">>
    \o Text(i.rule) \o <<"|">> \o PyStr(i.value) \o <<"|">> \o MsgText(i.message)
    \o <<"|">>

\* "\n".join(lines)
RECURSIVE JoinLines(_)
JoinLines(lines) ==
    IF lines = <<>> THEN <<>>
    ELSE IF Len(lines) = 1 THEN lines[1]
    ELSE lines[1] \o <<"\n">> \o JoinLines(Tail(lines))

\* ValidationReport.is_valid
ReportIsValid(iss) == iss = <<>>

\* ValidationReport.to_markdown
to_markdown_without_separator(iss) ==
    IF iss = <<>> THEN SuccessText
    ELSE JoinLines(<<TableHeader>> \o [k \in 1..Len(iss) |-> TableRow(iss[k])])

to_markdown(iss) ==
    IF iss = <<>> THEN SuccessText
    ELSE JoinLines(<<TableHeader, TableSeparator>>
                   \o [k \in 1..Len(iss) |-> TableRow(iss[k])])

\* the report of the validated rows is built and read: is_valid, to_markdown
Report ==
    /\ pc = "validated"
    /\ is_valid' = ReportIsValid(issues)
    /\ markdown' = to_markdown(issues)
    /\ pc' = "reported"
    /\ UNCHANGED <<raised, castVars, validateVars, pipeVars, datasetVars>>


(***************************************************************************)
(* A caller that validates datasets against each kind of rule, validates   *)
(* the same rows and rules a second time, and renders the report           *)
(***************************************************************************)
MaxRuleRows == 2

DigitsPattern == "[0-9]+"

\* a rule mapping with, for each of its columns, the cells the column draws from
RuleCases ==
    { [rules |-> << <<"code", << <<"regex", DigitsPattern>> >> >> >>,
       cells |-> [code |-> { StrV(<<"1","2">>), StrV(<<"1","2","a">>),
                             StrV(<<"a","1","2">>), StrV(<<"n","a">>),
                             IntV(12), NoneV }]],
      [rules |-> << <<"code", << <<"type", "str">>, <<"regex", DigitsPattern>> >> >> >>,
       cells |-> [code |-> { StrV(<<"1","2">>), StrV(<<"1","2","a">>), StrV(<<>>),
                             IntV(12), FloatV(FALSE, 3, <<5>>), NoneV }]],
      [rules |-> << <<"code", << <<"type", "int">>, <<"regex", DigitsPattern>>,
                                 <<"unique", TRUE>> >> >> >>,
       cells |-> [code |-> { StrV(<<"1","2">>), StrV(<<"1","2","a">>),
                             StrV(<<"1","2",".","0">>), IntV(12), StrV(<<"N","/","A">>) }]],
      [rules |-> << <<"age", << <<"required", TRUE>> >> >> >>,
       cells |-> [age |-> { StrV(<<"1","9">>), StrV(<<>>), StrV(<<" ","N","/","A"," ">>),
                            StrV(<<"N","u","l","l">>), NoneV, IntV(0) }]],
      [rules |-> << <<"age", << <<"not_null", TRUE>>, <<"required", FALSE>> >> >> >>,
       cells |-> [age |-> { StrV(<<"1","9">>), StrV(<<>>), StrV(<<"n","a">>),
                            NoneV, BoolV(FALSE) }]],
      [rules |-> << <<"age", << <<"required", TRUE>>, <<"not_null", TRUE>>,
                                <<"type", "int">>, <<"min", 0>>, <<"max", 120>> >> >> >>,
       cells |-> [age |-> { StrV(<<"1","9">>), StrV(<<"2","0","0">>), StrV(<<"-","5">>),
                            StrV(<<"o","o","p","s">>), StrV(<<"n","u","l","l">>),
                            NoneV, IntV(250) }]],
      [rules |-> << <<"score", << <<"type", "float">>, <<"min", 1>>, <<"max", 3>> >> >> >>,
       cells |-> [score |-> { StrV(<<"3",".","5">>), StrV(<<"0",".","5">>), StrV(<<"2">>),
                              StrV(<<"i","n","f">>), StrV(<<"x">>), StrV(<<"N","A">>),
                              IntV(7) }]],
      [rules |-> << <<"consent", << <<"type", "bool">>, <<"not_null", TRUE>>,
                                    <<"allowed", {BoolV(TRUE)}>> >> >> >>,
       cells |-> [consent |-> { StrV(<<"Y","e","s">>), StrV(<<"n","o">>),
                                StrV(<<"m","a","y","b","e">>), StrV(<<>>),
                                BoolV(TRUE), IntV(1), NoneV }]],
      [rules |-> << <<"joined", << <<"type", "datetime:%Y-%m-%d">>,
                                   <<"required", TRUE>> >> >> >>,
       cells |-> [joined |-> { StrV(<<"2","0","2","4","-","1","0","-","0","1">>),
                               StrV(<<"2","0","2","4","-","0","2","-","3","0">>),
                               StrV(<<"n","u","l","l">>), DateV(2024, 10, 1),
                               NoneV, IntV(2024) }]],
      [rules |-> << <<"name", << <<"type", "str">>, <<"len_min", 2>>, <<"len_max", 3>>,
                                 <<"allowed", {StrV(<<"A","l">>), StrV(<<"7","7">>)}>> >> >> >>,
       cells |-> [name |-> { StrV(<<"A">>), StrV(<<"A","l">>), StrV(<<"A","l","e","x">>),
                             StrV(<<" "," ">>), IntV(77), NoneV }]],
      [rules |-> << <<"name", << <<"len_min", 2>>, <<"not_null", TRUE>>,
                                 <<"unique", TRUE>> >> >> >>,
       cells |-> [name |-> { StrV(<<"A">>), StrV(<<"A","l">>), StrV(<<"n","a">>),
                             IntV(1), BoolV(TRUE), FloatV(FALSE, 1, <<>>) }]],
      [rules |-> << <<"price", << <<"type", "money">>, <<"min", 10>> >> >> >>,
       cells |-> [price |-> { StrV(<<"5">>), IntV(5), IntV(50), StrV(<<>>), NoneV }]],
      [rules |-> << <<"consent", << <<"min", 1>>, <<"max", 1>> >> >> >>,
       cells |-> [consent |-> { BoolV(TRUE), BoolV(FALSE), IntV(1), IntV(2), StrV(<<"0">>),
                                FloatV(FALSE, 0, <<5>>), FloatV(TRUE, 0, <<5>>), NoneV }]],
      [rules |-> << <<"code", << <<"type", "int">>,
                                 <<"allowed", {StrV(<<"1">>), StrV(<<"2">>)}>> >> >> >>,
       cells |-> [code |-> { StrV(<<"1">>), StrV(<<"3">>), StrV(<<"x">>), StrV(<<"n","a">>),
                             IntV(1), NoneV }]],
      [rules |-> << <<"code", << <<"allowed", {IntV(1), StrV(<<"2">>)}>> >> >> >>,
       cells |-> [code |-> { StrV(<<"1">>), StrV(<<"2">>), IntV(1), IntV(2), BoolV(TRUE),
                             FloatV(FALSE, 1, <<>>), StrV(<<>>), NoneV }]],
      [rules |-> << <<"consent", << <<"type", "bool">>, <<"min", 10>> >> >> >>,
       cells |-> [consent |-> { IntV(5), IntV(50), StrV(<<"5">>), StrV(<<"y","e","s">>),
                                BoolV(TRUE), NoneV }]],
      [rules |-> << <<"age", << <<"max", 1>>, <<"min", 10>> >> >> >>,
       cells |-> [age |-> { IntV(5), IntV(0), IntV(20), StrV(<<"5">>), NoneV }]],
      [rules |-> << <<"price", << <<"type", "float">> >> >> >>,
       cells |-> [price |-> { HugeIntV, IntV(3), StrV(<<"1",".","5">>), StrV(<<"x">>),
                              InfV(FALSE), BoolV(TRUE) }]],
      [rules |-> << <<"id", << <<"type", "int">> >> >> >>,
       cells |-> [id |-> { HugeIntV, StrV(<<"7">>), StrV(<<"x">>), InfV(TRUE),
                           FloatV(FALSE, 2, <<5>>), DateV(2024, 10, 1) }]],
      [rules |-> << <<"consent", << <<"type", "bool">> >> >> >>,
       cells |-> [consent |-> { HugeIntV, IntV(5), IntV(0), StrV(<<"y">>),
                                FloatV(FALSE, 1, <<>>), BoolV(FALSE) }]],
      [rules |-> << <<"id", << <<"unique", TRUE>> >> >>,
                    <<"code", << <<"unique", TRUE>>, <<"type", "int">>,
                                 <<"required", TRUE>> >> >> >>,
       cells |-> [id   |-> { StrV(<<"A","1">>), StrV(<<"A","2">>) },
                  code |-> { StrV(<<"1">>), StrV(<<"x">>) }]] }

\* the rows over the columns of a case, each present column drawing from its cells
RowsOfCase(c) ==
    UNION { { r \in [ks -> UNION { c.cells[k] : k \in ks }] :
                \A k \in ks : r[k] \in c.cells[k] } : ks \in SUBSET DOMAIN c.cells }

DatasetsOfCase(c) == UNION { [1..n -> RowsOfCase(c)] : n \in 0..MaxRuleRows }

InitRules ==
    /\ pc = "vready"
    /\ \E c \in RuleCases : rules = c.rules /\ rows \in DatasetsOfCase(c)
    /\ issues = <<>>
    /\ issues2 = <<>>
    /\ raised = "none"
    /\ row = EmptyRow
    /\ type_map = <<>>
    /\ out = EmptyRow
    /\ out2 = EmptyRow
    /\ NoReport
    /\ NoPipeline
    /\ NoDataset

\* validate_dataset called again with the rows and rules of the first call
ValidateAgain ==
    /\ pc = "validated"
    /\ \E r \in {validate_dataset(rows, rules)} :
           /\ raised' = r.exc
           /\ issues2' = r.issues
           /\ pc' = IF r.exc = "none" THEN "revalidated" ELSE "raised"
    /\ rows' = RowsAfterValidate(rows, rules)
    /\ UNCHANGED <<rules, issues, castVars, reportVars, pipeVars, datasetVars>>

NextRules == Validate \/ ValidateAgain \/ Report

SpecRules == InitRules /\ [][NextRules]_vars

(***************************************************************************)
(* normalize_header, on the characters of the header                       *)
(***************************************************************************)
IsLowerAlnum(c) == IsDigit(c) \/ \E i \in 1..26 : LowerChars[i] = c

\* re.sub(r"[^0-9a-z]+", "_", s): every maximal run of other characters
\* becomes one underscore
RECURSIVE SubNonAlnum(_)
SubNonAlnum(s) ==
    IF s = <<>> THEN <<>>
    ELSE IF IsLowerAlnum(Head(s)) THEN <<Head(s)>> \o SubNonAlnum(Tail(s))
    ELSE IF Len(s) > 1 /\ ~IsLowerAlnum(s[2]) THEN SubNonAlnum(Tail(s))
    ELSE <<"_">> \o SubNonAlnum(Tail(s))

\* re.sub(r"_+", "_", s)
RECURSIVE CollapseUnderscores(_)
CollapseUnderscores(s) ==
    IF s = <<>> THEN <<>>
    ELSE IF Head(s) = "_" /\ Len(s) > 1 /\ s[2] = "_" THEN CollapseUnderscores(Tail(s))
    ELSE <<Head(s)>> \o CollapseUnderscores(Tail(s))

\* s.strip("_")
RECURSIVE StripUnderscores(_)
StripUnderscores(s) ==
    IF s # <<>> /\ Head(s) = "_" THEN StripUnderscores(Tail(s))
    ELSE IF s # <<>> /\ s[Len(s)] = "_" THEN StripUnderscores(SubSeq(s, 1, Len(s) - 1))
    ELSE s

normalize_header(name) ==
    LET Prefixed(s) ==
            IF s = <<>> THEN <<"u","n","n","a","m","e","d">>
            ELSE IF IsDigit(s[1]) THEN <<"c","o","l","_">> \o s
            ELSE s
    IN  Prefixed(StripUnderscores(CollapseUnderscores(SubNonAlnum(lower(strip(name))))))

(***************************************************************************)
(* DataFrames and the transformer steps.  A frame is its column labels, in *)
(* order, and its rows, each the cells of the columns in the same order.   *)
(* Cells keep the values the steps give them: the column dtype that pandas *)
(* infers over several rows is not modelled.                               *)
(***************************************************************************)
Frame(columns, data) == [columns |-> columns, data |-> data]

\* the frame restricted to the columns at the positions ps, in that order
Select(frame, ps) ==
    Frame([k \in 1..Len(ps) |-> frame.columns[ps[k]]],
          [r \in 1..Len(frame.data) |-> [k \in 1..Len(ps) |-> frame.data[r][ps[k]]]])

\* the constructors of transformers.py; every step starts with an empty log
HeaderNormalizer ==
    [name |-> "HeaderNormalizer", columns |-> <<>>, type_map |-> <<>>, log |-> <<>>]
PIIRemover(columns) ==
    [name |-> "PIIRemover", columns |-> columns, type_map |-> <<>>, log |-> <<>>]
TypeCaster(tm) ==
    [name |-> "TypeCaster", columns |-> <<>>, type_map |-> tm, log |-> <<>>]

required_columns(step) ==
    IF step.name = "TypeCaster"
    THEN [i \in 1..Len(step.type_map) |-> step.type_map[i][1]]
    ELSE <<>>

\* _preflight: the exception raised, "none" if the required columns exist
Preflight(step, frame) ==
    IF \E i \in 1..Len(required_columns(step)) :
          \A k \in 1..Len(frame.columns) : frame.columns[k] # required_columns(step)[i]
    THEN "KeyError"
    ELSE "none"

\* df.rename(columns={c: normalize_header(c) for c in df.columns})
HeaderNormalizerApply(frame) ==
    Frame([k \in 1..Len(frame.columns) |-> normalize_header(frame.columns[k])],
          frame.data)

\* df.drop(columns=self.columns, errors="ignore")
PIIRemoverApply(step, frame) ==
    LET Keep(k) == \A i \in 1..Len(step.columns) : step.columns[i] # frame.columns[k]
    IN  Select(frame, Sorted({ k \in 1..Len(frame.columns) : Keep(k) }))

\* df.to_dict(orient="records"): one dict per row; of two columns with the
\* same label the later one gives the value
ToRecords(frame) ==
    [r \in 1..Len(frame.data) |->
        [c \in { frame.columns[k] : k \in 1..Len(frame.columns) } |->
            frame.data[r][CHOOSE k \in 1..Len(frame.columns) :
                             /\ frame.columns[k] = c
                             /\ \A j \in (k + 1)..Len(frame.columns) :
                                    frame.columns[j] # c]]]

\* pd.DataFrame(records): the keys of the dicts in insertion order; no
\* records give a frame without columns
FromRecords(columns, records) ==
    LET First(k) == \A j \in 1..(k - 1) : columns[j] # columns[k]
        ps       == Sorted({ k \in 1..Len(columns) : First(k) })
    IN  IF records = <<>> THEN Frame(<<>>, <<>>)
        ELSE Frame([k \in 1..Len(ps) |-> columns[ps[k]]],
                   [r \in 1..Len(records) |->
                       [k \in 1..Len(ps) |-> records[r][columns[ps[k]]]]])

\* TypeCaster._apply: [exc, out]
TypeCasterApply(step, frame) ==
    LET Built(casted) ==
            IF \E r \in 1..Len(casted) : casted[r].exc # "none"
            THEN [exc |-> casted[CHOOSE r \in 1..Len(casted) :
                                    /\ casted[r].exc # "none"
                                    /\ \A q \in 1..(r - 1) : casted[q].exc = "none"].exc,
                  out |-> frame]
            ELSE [exc |-> "none",
                  out |-> FromRecords(frame.columns,
                                      [r \in 1..Len(casted) |-> casted[r].out])]
        Casted(records) ==
            Built([r \in 1..Len(records) |-> cast_row_types(records[r], step.type_map)])
    IN  Casted(ToRecords(frame))

\* _apply of the step's class: [exc, out]
StepApply(step, frame) ==
    IF step.name = "HeaderNormalizer"
    THEN [exc |-> "none", out |-> HeaderNormalizerApply(frame)]
    ELSE IF step.name = "PIIRemover"
    THEN [exc |-> "none", out |-> PIIRemoverApply(step, frame)]
    ELSE TypeCasterApply(step, frame)

\* the line _log appends, without its clock stamp
LogLine(step) == <<step.name, ": ", step.name, " finished">>

\* Transformer.apply: preflight, transform, log: [exc, out, step]
apply(step, frame) ==
    IF Preflight(step, frame) # "none"
    THEN [exc |-> Preflight(step, frame), out |-> frame, step |-> step]
    ELSE LET Logged(r) ==
                 IF r.exc # "none" THEN [exc |-> r.exc, out |-> frame, step |-> step]
                 ELSE [exc |-> "none", out |-> r.out,
                       step |-> [step EXCEPT !.log = Append(@, LogLine(step))]]
         IN  Logged(StepApply(step, frame))

(***************************************************************************)
(* Pipeline.run                                                            *)
(***************************************************************************)
\* a loop that takes the steps from the last to the first
RECURSIVE RunLoopReversed(_, _, _, _)
RunLoopReversed(frame, sts, hist, i) ==
    IF i > Len(sts) THEN [exc |-> "none", out |-> frame, steps |-> sts, history |-> hist]
    ELSE LET j == Len(sts) + 1 - i
             Stepped(r) ==
                 IF r.exc # "none"
                 THEN [exc |-> r.exc, out |-> frame, steps |-> sts, history |-> hist]
                 ELSE RunLoopReversed(r.out, [sts EXCEPT ![j] = r.step],
                                      hist \o r.step.log, i + 1)
         IN  Stepped(apply(sts[j], frame))

\* the for loop from step i on: out = step.apply(out), then
\* self.history.extend(step.history()); an exception ends the loop
RECURSIVE RunLoop(_, _, _, _)
RunLoop(frame, sts, hist, i) ==
    IF i > Len(sts) THEN [exc |-> "none", out |-> frame, steps |-> sts, history |-> hist]
    ELSE LET Stepped(r) ==
                 IF r.exc # "none"
                 THEN [exc |-> r.exc, out |-> frame, steps |-> sts, history |-> hist]
                 ELSE RunLoop(r.out, [sts EXCEPT ![i] = r.step],
                              hist \o r.step.log, i + 1)
         IN  Stepped(apply(sts[i], frame))

\* df.copy()
Copy(frame) == frame

\* the caller's frame after run: the loop works on the copy, and every step
\* builds a new frame
FrameAfterRun(frame, r) == frame

(***************************************************************************)
(* A caller that builds a pipeline and runs it on one frame, up to         *)
(* MaxRuns times.                                                          *)
(***************************************************************************)
MaxRuns == 2
MaxSteps == 3
MaxFrameRows == 1

Q1Age == <<"Q","1"," ","-"," ","A","g","e">>
EmailAddress == <<"E","m","a","i","l"," ","A","d","d","r","e","s","s">>
q1_age == <<"q","1","_","a","g","e">>
email_address == <<"e","m","a","i","l","_","a","d","d","r","e","s","s">>

\* the columns of the frames and the cells each column draws from: raw survey
\* headers, headers already normalized, headers that normalize to one name,
\* a digit and a symbol, and no column
FrameCases ==
    { [columns |-> <<Q1Age, EmailAddress>>,
       cells   |-> << {IntV(19), StrV(<<"1","9",".","0">>)}, {StrV(<<"a","@","b">>)} >>],
      [columns |-> <<q1_age, email_address>>,
       cells   |-> << {StrV(<<"1","9",".","0">>), StrV(<<"x">>), NoneV},
                      {StrV(<<"a","@","b">>)} >>],
      [columns |-> <<EmailAddress, email_address>>,
       cells   |-> << {StrV(<<"a","@","b">>)}, {StrV(<<"c","@","d">>), NoneV} >>],
      [columns |-> <<Q1Age, q1_age>>,
       cells   |-> << {StrV(<<"1","9",".","0">>)}, {StrV(<<"2">>), IntV(19)} >>],
      [columns |-> << <<"1","2"," ">>, <<"!","_","_","?">> >>,
       cells   |-> << {IntV(19)}, {IntV(19), StrV(<<"a","@","b">>)} >>],
      [columns |-> <<>>, cells |-> <<>>] }

\* the rows of a case: one cell per column, drawn from the cells of the column
FrameRowsOfCase(c) ==
    { r \in [1..Len(c.columns) -> UNION { c.cells[k] : k \in 1..Len(c.cells) }] :
        \A k \in 1..Len(c.columns) : r[k] \in c.cells[k] }

Frames ==
    UNION { { Frame(c.columns, d) :
                d \in UNION { [1..n -> FrameRowsOfCase(c)] : n \in 0..MaxFrameRows } } :
            c \in FrameCases }

StepChoices ==
    { HeaderNormalizer,
      PIIRemover(<<email_address>>),
      PIIRemover(<<EmailAddress, <<"p","h","o","n","e">> >>),
      TypeCaster(<< <<q1_age, "int">> >>),
      TypeCaster(<<>>) }

InitPipeline ==
    /\ pc = "pipeline"
    /\ df \in Frames
    /\ steps \in UNION { [1..n -> StepChoices] : n \in 0..MaxSteps }
    /\ history = <<>>
    /\ run_out = <<>>
    /\ runs = 0
    /\ raised = "none"
    /\ row = EmptyRow
    /\ type_map = <<>>
    /\ out = EmptyRow
    /\ out2 = EmptyRow
    /\ rows = <<>>
    /\ rules = <<>>
    /\ issues = <<>>
    /\ issues2 = <<>>
    /\ NoReport
    /\ NoDataset

\* pipe.run(df); an exception of a step escapes and nothing is returned
Run ==
    /\ pc = "pipeline"
    /\ runs < MaxRuns
    /\ \E r \in {RunLoop(Copy(df), steps, history, 1)} :
          /\ raised' = r.exc
          /\ run_out' = IF r.exc = "none" THEN r.out ELSE run_out
          /\ steps' = r.steps
          /\ history' = r.history
          /\ df' = FrameAfterRun(df, r)
    /\ runs' = runs + 1
    /\ UNCHANGED <<pc, castVars, validateVars, reportVars, datasetVars>>

NextPipeline == Run

SpecPipeline == InitPipeline /\ [][NextPipeline]_vars

(***************************************************************************)
(* Dataset.clean_headers.  A row dict is the sequence of its items         *)
(* <<key, value>>, in insertion order; its keys are distinct.              *)
(***************************************************************************)
\* d[key] = value on a dict: a key that is there keeps its place
DictSet(d, key, value) ==
    IF \E k \in 1..Len(d) : d[k][1] = key
    THEN [k \in 1..Len(d) |-> IF d[k][1] = key THEN <<key, value>> ELSE d[k]]
    ELSE Append(d, <<key, value>>)

\* {normalize_header(k): v for k, v in row.items()}, from the first n items
RECURSIVE RenamedKeys(_, _)
RenamedKeys(items, n) ==
    IF n = 0 THEN <<>>
    ELSE DictSet(RenamedKeys(items, n - 1), normalize_header(items[n][1]), items[n][2])

\* the rows clean_headers builds
clean_headers(rs) == [i \in 1..Len(rs) |-> RenamedKeys(rs[i], Len(rs[i]))]

(***************************************************************************)
(* A caller that builds a Dataset, takes a snapshot of its rows and cleans *)
(* the headers, up to MaxCleans times.                                     *)
(***************************************************************************)
MaxCleans == 2
MaxDatasetRows == 2
MaxRowKeys == 2

DatasetHeaders == { EmailAddress, email_address, Q1Age }

\* the cells of the k-th item of a row
DatasetCellsAt(k) ==
    IF k % 2 = 1 THEN { StrV(<<"a","@","b">>) } ELSE { IntV(19), StrV(<<"a","@","b">>) }

\* the row dicts: up to MaxRowKeys items with distinct keys
DatasetRowDicts ==
    UNION { { r \in [1..n -> DatasetHeaders \X UNION { DatasetCellsAt(k) : k \in 1..n }] :
                /\ \A a, b \in 1..n : a # b => r[a][1] # r[b][1]
                /\ \A k \in 1..n : r[k][2] \in DatasetCellsAt(k) } : n \in 0..MaxRowKeys }

InitDataset ==
    /\ pc = "dataset"
    /\ ds_rows \in UNION { [1..n -> DatasetRowDicts] : n \in 1..MaxDatasetRows }
    /\ ds_cleaned = FALSE
    /\ snapshot = <<>>
    /\ cleans = 0
    /\ raised = "none"
    /\ row = EmptyRow
    /\ type_map = <<>>
    /\ out = EmptyRow
    /\ out2 = EmptyRow
    /\ rows = <<>>
    /\ rules = <<>>
    /\ issues = <<>>
    /\ issues2 = <<>>
    /\ NoReport
    /\ NoPipeline

\* before = ds.snapshot(); ds.clean_headers()
CleanHeaders ==
    /\ pc = "dataset"
    /\ cleans < MaxCleans
    /\ snapshot' = ds_rows
    /\ ds_rows' = clean_headers(ds_rows)
    /\ ds_cleaned' = TRUE
    /\ cleans' = cleans + 1
    /\ UNCHANGED <<pc, raised, castVars, validateVars, reportVars, pipeVars>>

NextDataset == CleanHeaders

SpecDataset == InitDataset /\ [][NextDataset]_vars

(***************************************************************************)
(* Properties of cast_row_types (checked under SpecCast)                   *)
(***************************************************************************)
Returned == pc \in {"cast", "recast"}

\* the label under which column c of the row was cast, "" if c is not mapped
LabelOf(c) ==
    IF c \in Keys(type_map)
    THEN type_map[CHOOSE i \in 1..Len(type_map) : type_map[i][1] = c][2]
    ELSE ""

\* the null convention as the specification words it
NullByConvention(x) ==
    \/ x.t = "none"
    \/ /\ x.t = "str"
       /\ lower(strip(x.s)) \in
            { <<>>, <<"n","a">>, <<"n","/","a">>, <<"n","u","l","l">> }

\* C1: for every row and type map (unsupported labels included) the call
\* returns without raising, and the returned row has the key set of the input.
C1_NeverRaisesSameKeys ==
    pc # "ready" => /\ raised = "none"
                    /\ Returned
                    /\ DOMAIN out = DOMAIN row

C1_Witness ==
    /\ pc = "cast"
    /\ type_map = << <<"age", "money">>, <<"joined", "datetime:%Y-%m-%d">> >>
    /\ DOMAIN row = {"age"}
    /\ row["age"] = StrV(<<"i","n","f">>)
    /\ DOMAIN out = {"age"}

\* C2: when the conversion of a non-null cell fails (unparsable text, or a
\* label that is not supported), the output value of the column is the value
\* supplied in the input row.
C2_FailureKeepsValue ==
    Returned =>
        \A c \in DOMAIN row :
            LET l == LabelOf(c)
            IN  /\ l \notin {"", "str"}
                /\ ~NullByConvention(row[c])
                /\ \/ l \notin {"int", "float", "bool"} \cup DatetimeLabels
                   \/ Convert(l, row[c]).exc # "none"
                => out[c] = row[c]

C2_Witness ==
    /\ pc = "cast"
    /\ type_map = << <<"age", "int">> >>
    /\ "age" \in DOMAIN row
    /\ row["age"] = StrV(<<"o","o","p","s">>)
    /\ out["age"] = StrV(<<"o","o","p","s">>)

\* C3: a mapped cell that is null by the null convention becomes None in the
\* output under every label, supported or not.
C3_NullBecomesNone ==
    Returned =>
        \A c \in DOMAIN row :
            (c \in Keys(type_map) /\ NullByConvention(row[c])) => out[c] = NoneV

C3_Witness ==
    /\ pc = "cast"
    /\ type_map = << <<"consent", "money">>, <<"age", "str">> >>
    /\ DOMAIN row = {"age", "consent"}
    /\ row["age"] = StrV(<<" ","n","u","l","l"," ">>)
    /\ row["consent"] = StrV(<<"N","/","A">>)
    /\ out["age"] = NoneV /\ out["consent"] = NoneV

\* a decimal numeral: an optional sign, digits, an optional point and digits
NumeralBody(s) == IF s # <<>> /\ Head(s) \in {"+", "-"} THEN Tail(s) ELSE s

NumeralIntDigits(s) ==
    LET b == NumeralBody(s)
    IN  IF FindChar(b, ".") = 0 THEN b ELSE SubSeq(b, 1, FindChar(b, ".") - 1)

NumeralFracDigits(s) ==
    LET b == NumeralBody(s)
    IN  IF FindChar(b, ".") = 0 THEN <<>> ELSE SubSeq(b, FindChar(b, ".") + 1, Len(b))

IsDecimalNumeral(s) ==
    /\ NumeralIntDigits(s) # <<>>
    /\ AllDigits(NumeralIntDigits(s))
    /\ AllDigits(NumeralFracDigits(s))

\* the integer part of a decimal numeral, as a Python int
IntegerPart(s) ==
    LET n == DigitsVal(NumeralIntDigits(s))
    IN  IntV(IF Head(s) = "-" THEN -n ELSE n)

\* the digits the numeral writes
SignificantDigits(s) == Len(NumeralIntDigits(s)) + Len(NumeralFracDigits(s))

\* the decimal digits a double always preserves (DBL_DIG)
DoubleDecimalDigits == 15

\* C4 as claimed: under label int every text that is a decimal numeral is
\* cast to its integer part.
C4_EveryNumeralTruncated ==
    Returned =>
        \A c \in DOMAIN row :
            (LabelOf(c) = "int" /\ row[c].t = "str" /\ IsDecimalNumeral(row[c].s))
                => out[c] = IntegerPart(row[c].s)

\* C4 amended: under label int the text is read as the nearest double and
\* truncated, so every decimal numeral of at most 15 significant digits is
\* cast to its integer part ("19.0" to 19, "19.9" to 19, "-3.7" to -3).
C4_ShortNumeralTruncated ==
    Returned =>
        \A c \in DOMAIN row :
            /\ LabelOf(c) = "int"
            /\ row[c].t = "str"
            /\ IsDecimalNumeral(row[c].s)
            /\ SignificantDigits(row[c].s) <= DoubleDecimalDigits
            => out[c] = IntegerPart(row[c].s)

C4_Witness ==
    /\ pc = "cast"
    /\ LabelOf("age") = "int"
    /\ "age" \in DOMAIN row
    /\ row["age"] = StrV(<<"-","3",".","7">>)
    /\ out["age"] = IntV(-3)

\* the text of a value, compared without regard to case
FoldedText(x) == lower(PyStr(x))
TrimmedFoldedText(x) == lower(strip(PyStr(x)))

TrueWords == { <<"t","r","u","e">>, <<"y","e","s">>, <<"y">>, <<"1">> }
FalseWords == { <<"f","a","l","s","e">>, <<"n","o">>, <<"n">>, <<"0">> }

\* C5 as claimed: under label bool a non-null value yields true exactly when
\* its case-insensitive text is true, yes, y or 1, false exactly when it is
\* false, no, n or 0, and is kept as supplied otherwise.
C5_BoolByFoldedText ==
    Returned =>
        \A c \in DOMAIN row :
            (LabelOf(c) = "bool" /\ ~NullByConvention(row[c])) =>
                /\ out[c] = BoolV(TRUE) <=> FoldedText(row[c]) \in TrueWords
                /\ out[c] = BoolV(FALSE) <=> FoldedText(row[c]) \in FalseWords
                /\ FoldedText(row[c]) \notin TrueWords \cup FalseWords
                     => out[c] = row[c]

\* C5 amended: the text is trimmed of surrounding whitespace before the
\* case-insensitive match; " yes " yields true.
C5_BoolByTrimmedFoldedText ==
    Returned =>
        \A c \in DOMAIN row :
            (LabelOf(c) = "bool" /\ ~NullByConvention(row[c])) =>
                /\ out[c] = BoolV(TRUE) <=> TrimmedFoldedText(row[c]) \in TrueWords
                /\ out[c] = BoolV(FALSE) <=> TrimmedFoldedText(row[c]) \in FalseWords
                /\ TrimmedFoldedText(row[c]) \notin TrueWords \cup FalseWords
                     => out[c] = row[c]

C5_Witness ==
    /\ pc = "cast"
    /\ LabelOf("age") = "bool" /\ LabelOf("consent") = "bool"
    /\ DOMAIN row = {"age", "consent"}
    /\ row["age"] = StrV(<<"T","R","U","E">>) /\ out["age"] = BoolV(TRUE)
    /\ row["consent"] = StrV(<<"o","o","p","s">>) /\ out["consent"] = row["consent"]

IdempotentLabels == {"int", "float", "bool"}

\* C6: with only int, float and bool labels, casting the cast row again with
\* the same type map returns, and returns the same row, null cells and cells
\* whose first cast failed included.
C6_Idempotent ==
    (\A i \in 1..Len(type_map) : type_map[i][2] \in IdempotentLabels) =>
        /\ pc # "raised"
        /\ pc = "recast" => out2 = out

C6_Witness ==
    /\ pc = "recast"
    /\ type_map = << <<"age", "int">>, <<"consent", "bool">> >>
    /\ DOMAIN row = {"age", "consent"}
    /\ row["age"] = StrV(<<"1","9",".","9">>)
    /\ row["consent"] = StrV(<<"o","o","p","s">>)
    /\ out2 = out
    /\ out["age"] = IntV(19)

\* C7: the call leaves the caller's row as it was; every column that is not
\* in the type map has the input's value in the output; a column of the type
\* map that the row lacks is not added.
C7_Frame ==
    [][pc = "ready" =>
        /\ row' = row
        /\ \A c \in DOMAIN row : c \notin Keys(type_map) => out'[c] = row[c]
        /\ \A c \in Keys(type_map) : c \notin DOMAIN row => c \notin DOMAIN out'
      ]_vars

C7_Witness ==
    /\ pc = "cast"
    /\ type_map = << <<"joined", "datetime:%Y-%m-%d">>, <<"age", "int">> >>
    /\ DOMAIN row = {"age", "consent"}
    /\ row["age"] = StrV(<<"1","9">>)
    /\ out["age"] = IntV(19)
    /\ out["consent"] = row["consent"]
    /\ DOMAIN out = {"age", "consent"}

(***************************************************************************)
(* Properties of validate_dataset (checked under SpecValidate)             *)
(***************************************************************************)
\* the rule keys of the issues reported for row index idx and column col,
\* in list order
RuleKeysAt(idx, col) ==
    LET sel == SelectSeq(issues, LAMBDA i : i.row_idx = idx /\ i.column = col)
    IN  [k \in 1..Len(sel) |-> sel[k].rule]

\* the row indices with a unique issue for column col
UniqueIdxs(col) ==
    { issues[k].row_idx :
        k \in { k \in 1..Len(issues) :
                  issues[k].rule = "unique" /\ issues[k].column = col } }

\* <<row index, column, rule key>> of every issue, in list order
IssueKeys == [k \in 1..Len(issues) |->
                <<issues[k].row_idx, issues[k].column, issues[k].rule>>]

ExampleAgeRows ==
    << [age |-> StrV(<<"1","9">>)], [age |-> StrV(<<"2","0","0">>)], EmptyRow >>

\* C8: for a column with rules {type: int, min, max, required: true} a row
\* whose value casts to an integer within [min, max] gets no issue, one whose
\* value casts to an integer above max gets exactly one issue (max), and one
\* that lacks the column gets exactly one issue (required); the example
\* dataset with bounds 0..120 gives a max issue for row 1 and a required
\* issue for row 2 and nothing else.
C8_RangeAndRequired ==
    pc # "vready" =>
        /\ pc = "validated"
        /\ \A k \in 1..Len(rules) :
             LET col  == rules[k][1]
                 spec == rules[k][2]
                 lo   == Get(spec, "min", 0)
                 hi   == Get(spec, "max", 0)
             IN  spec = AgeRule(lo, hi) =>
                   \A i \in 1..Len(rows) :
                     IF col \notin DOMAIN rows[i]
                     THEN RuleKeysAt(i - 1, col) = <<"required">>
                     ELSE LET c == CastCell(rows[i][col], "int").val
                          IN  /\ (c.t = "int" /\ lo <= c.n /\ c.n <= hi)
                                    => RuleKeysAt(i - 1, col) = <<>>
                              /\ (c.t = "int" /\ c.n > hi)
                                    => RuleKeysAt(i - 1, col) = <<"max">>
        /\ (rows = ExampleAgeRows /\ rules = << <<"age", AgeRule(0, 120)>> >>)
              => IssueKeys = << <<1, "age", "max">>, <<2, "age", "required">> >>

C8_Witness ==
    /\ pc = "validated"
    /\ rows = ExampleAgeRows
    /\ rules = << <<"age", AgeRule(0, 120)>> >>
    /\ Len(issues) = 2

\* the row indices whose value for col, read by Value, is non-null and equal
\* to the value of another row
Duplicated(col, Value(_)) ==
    { i - 1 : i \in { i \in 1..Len(rows) :
        /\ col \in DOMAIN rows[i]
        /\ ~NullByConvention(Value(i))
        /\ \E j \in 1..Len(rows) :
              j # i /\ col \in DOMAIN rows[j] /\ PyEq(Value(j), Value(i)) } }

ExampleIdRows ==
    << [id |-> StrV(<<"A","1">>)], [id |-> StrV(<<"A","2">>)],
       [id |-> StrV(<<"A","1">>)] >>

\* C9: for a column whose rule is {unique: true} with no type key, the rows
\* with a unique issue are exactly the rows holding a non-null value that
\* occurs in more than one row, the first occurrence included; the example
\* rows A1, A2, A1 give unique issues for rows 0 and 2 only.
C9_UniqueWithoutType ==
    pc = "validated" =>
        /\ \A k \in 1..Len(rules) :
             LET col  == rules[k][1]
                 spec == rules[k][2]
                 Raw(i) == rows[i][col]
             IN  (spec = << <<"unique", TRUE>> >>)
                    => UniqueIdxs(col) = Duplicated(col, Raw)
        /\ (rows = ExampleIdRows /\ rules = << <<"id", UniqueRule>> >>)
              => IssueKeys = << <<0, "id", "unique">>, <<2, "id", "unique">> >>

C9_Witness ==
    /\ pc = "validated"
    /\ rows = ExampleIdRows
    /\ rules = << <<"id", UniqueRule>> >>
    /\ UniqueIdxs("id") = {0, 2}

\* C10: for every column with unique: true, whatever its other rule keys
\* (a type key in particular), the rows with a unique issue are exactly the
\* rows whose non-null interpreted (post-cast) value occurs at more than one
\* row: the later rows and the first-seen row.
C10_UniqueAfterCast ==
    pc = "validated" =>
        \A k \in 1..Len(rules) :
            LET col  == rules[k][1]
                spec == rules[k][2]
                Interpreted(i) ==
                    IF Has(spec, "type")
                    THEN CastCell(rows[i][col], Get(spec, "type", "")).val
                    ELSE rows[i][col]
            IN  Get(spec, "unique", FALSE)
                    => UniqueIdxs(col) = Duplicated(col, Interpreted)

(***************************************************************************)
(* Properties of the rule checks (checked under SpecRules)                 *)
(***************************************************************************)
\* the interpreted value of column col of row i: cast when the rule has a type
InterpretedAt(i, col, spec) ==
    IF Has(spec, "type")
    THEN CastCell(rows[i][col], Get(spec, "type", "")).val
    ELSE rows[i][col]

\* the issues reported for row index idx, column col and rule key
IssuesAt(idx, col, rule) ==
    SelectSeq(issues, LAMBDA i : i.row_idx = idx /\ i.column = col /\ i.rule = rule)

\* every character of s is a digit and there is at least one
WholeStringOfDigits(s) ==
    /\ Len(s) >= 1
    /\ \A i \in 1..Len(s) : s[i] \in {"0","1","2","3","4","5","6","7","8","9"}

\* C11: for a column whose rule has regex "[0-9]+", a present cell gets a
\* regex issue (exactly one) iff its interpreted value is a non-null text that
\* is not, as a whole, a string of digits; "12a" gets one although its prefix
\* "12" matches.
C11_RegexFullMatch ==
    pc = "validated" =>
        /\ \A k \in 1..Len(rules) : \A i \in 1..Len(rows) :
             LET col  == rules[k][1]
                 spec == rules[k][2]
             IN  (Get(spec, "regex", "") = DigitsPattern /\ col \in DOMAIN rows[i]) =>
                    LET v == InterpretedAt(i, col, spec)
                    IN  Len(IssuesAt(i - 1, col, "regex")) =
                          IF v.t = "str" /\ ~NullByConvention(v) /\ ~WholeStringOfDigits(v.s)
                          THEN 1 ELSE 0
        /\ (/\ rows = << [code |-> StrV(<<"1","2","a">>)] >>
            /\ rules = << <<"code", << <<"regex", DigitsPattern>> >> >> >>)
              => IssueKeys = << <<0, "code", "regex">> >>

C11_Witness ==
    /\ pc = "validated"
    /\ rows = << [code |-> StrV(<<"1","2","a">>)], [code |-> StrV(<<"1","2">>)] >>
    /\ rules = << <<"code", << <<"regex", DigitsPattern>> >> >> >>
    /\ IssueKeys = << <<0, "code", "regex">> >>

\* the row-wise (not unique) issues reported for row index idx, in list order
RowWiseIssuesAt(idx) ==
    SelectSeq(issues, LAMBDA i : i.row_idx = idx /\ i.rule # "unique")

\* the issues validate_dataset reports for row r when it is the whole dataset
AloneIssues(r) == validate_dataset(<<r>>, rules).issues

\* C12: validate_dataset returns an issue list without raising for every
\* dataset (rows with different column sets, null, uncastable and typed
\* cells), and every row is processed: the row-wise issues it reports for a
\* row are the issues that row gets when validated alone, whatever the other
\* rows hold.
C12_TotalOverContent ==
    /\ pc # "raised"
    /\ raised = "none"
    /\ pc = "validated" =>
         \A i \in 1..Len(rows) :
            RowWiseIssuesAt(i - 1) =
                [k \in 1..Len(AloneIssues(rows[i])) |->
                    [AloneIssues(rows[i])[k] EXCEPT !.row_idx = i - 1]]

C12_Witness ==
    /\ pc = "validated"
    /\ Len(rows) = 2
    /\ rows[1] = [age |-> StrV(<<"o","o","p","s">>)]
    /\ rows[2] = [age |-> StrV(<<"2","0","0">>)]
    /\ Has(rules[1][2], "max")
    /\ RuleKeysAt(0, "age") = <<"type">>
    /\ RuleKeysAt(1, "age") = <<"max">>

\* C13: in the returned list every issue whose rule is not unique precedes
\* every unique issue, the issues that are not unique are in non-decreasing
\* row_idx order, and the unique issues of one column are contiguous.
C13_IssueOrder ==
    pc = "validated" =>
        \A a, b \in 1..Len(issues) :
            a < b =>
                /\ issues[a].rule = "unique" => issues[b].rule = "unique"
                /\ issues[b].rule # "unique" => issues[a].row_idx <= issues[b].row_idx
                /\ (/\ issues[a].rule = "unique"
                    /\ issues[a].column = issues[b].column)
                      => \A c \in a..b : issues[c].column = issues[a].column

\* two type issues, then the unique issues of two columns
C13_Witness ==
    /\ pc = "validated"
    /\ Len(rules) = 2
    /\ IssueKeys = << <<0, "code", "type">>, <<1, "code", "type">>,
                      <<0, "id", "unique">>, <<1, "id", "unique">>,
                      <<0, "code", "unique">>, <<1, "code", "unique">> >>

(***************************************************************************)
(* Properties of ValidationReport (checked under SpecRules)                *)
(***************************************************************************)
\* s cut at every occurrence of the character sep
RECURSIVE Split(_, _)
Split(s, sep) ==
    IF \A i \in 1..Len(s) : s[i] # sep THEN <<s>>
    ELSE LET p == CHOOSE i \in 1..Len(s) : s[i] = sep /\ \A j \in 1..(i - 1) : s[j] # sep
         IN  <<SubSeq(s, 1, p - 1)>> \o Split(SubSeq(s, p + 1, Len(s)), sep)

\* needle occurs in s
Contains(s, needle) ==
    \E i \in 1..(Len(s) - Len(needle) + 1) : SubSeq(s, i, i + Len(needle) - 1) = needle

AllChecksPassed ==
    <<"A","l","l"," ","c","h","e","c","k","s"," ","p","a","s","s","e","d">>

\* C14: is_valid is true iff the issue list is empty; to_markdown returns the
\* success text (which contains "All checks passed") iff the list is empty,
\* and otherwise the header line, the separator line and one line per issue,
\* in issue order, whose cells are the issue's row index, column, rule, value
\* and message.
C14_ReportRendering ==
    pc = "reported" =>
        /\ is_valid <=> (issues = <<>>)
        /\ (markdown = SuccessText) <=> (issues = <<>>)
        /\ Contains(markdown, AllChecksPassed) <=> (issues = <<>>)
        /\ issues # <<>> =>
             LET lines == Split(markdown, "\n")
             IN  /\ Len(lines) = Len(issues) + 2
                 /\ lines[1] = TableHeader
                 /\ lines[2] = TableSeparator
                 /\ \A k \in 1..Len(issues) :
                      Split(lines[k + 2], "|") =
                        << <<>>, PyStr(IntV(issues[k].row_idx)), Text(issues[k].column),
                           Text(issues[k].rule), PyStr(issues[k].value),
                           MsgText(issues[k].message), <<>> >>

C14_Witness ==
    /\ pc = "reported"
    /\ ~is_valid
    /\ Len(issues) = 2
    /\ issues[1].rule = "type" /\ issues[2].rule = "max"
    /\ Len(Split(markdown, "\n")) = 4

RawValueOf(issue) == RowGet(rows[issue.row_idx + 1], issue.column)

\* the rule specification of column col
SpecOf(col) == Get(rules, col, <<>>)

\* C16 as claimed: every issue, whatever its rule, carries the pre-cast value
\* of its cell exactly as supplied.
C16_ValueIsRaw ==
    pc = "validated" =>
        \A k \in 1..Len(issues) : issues[k].value = RawValueOf(issues[k])

\* C16: a required, not_null, type or unique issue carries the pre-cast value
\* of its cell as supplied (None when the column is absent); a min, max,
\* len_min, len_max, allowed or regex issue carries the interpreted (post-cast)
\* value.
C16_ValueRawOrInterpreted ==
    pc = "validated" =>
        \A k \in 1..Len(issues) :
            IF issues[k].rule \in {"required", "not_null", "type", "unique"}
            THEN issues[k].value = RawValueOf(issues[k])
            ELSE /\ issues[k].rule \in {"min", "max", "len_min", "len_max",
                                        "allowed", "regex"}
                 /\ issues[k].value =
                        InterpretedAt(issues[k].row_idx + 1, issues[k].column,
                                      SpecOf(issues[k].column))

\* a max issue that carries the cast number beside a type issue
C16_Witness ==
    /\ pc = "validated"
    /\ \E k \in 1..Len(issues) :
          /\ issues[k].rule = "max"
          /\ issues[k].value = IntV(200)
          /\ RawValueOf(issues[k]) = StrV(<<"2","0","0">>)
    /\ \E k \in 1..Len(issues) : issues[k].rule = "type"

(***************************************************************************)
(* The required rule (checked under SpecRules)                             *)
(***************************************************************************)
\* C18: a (row, column) gets a required issue iff the column's rule has
\* required true and the column is absent from the raw row or its raw value is
\* null by the null convention; the issue carries the raw value when the column
\* is present and None when it is absent.
C18_RequiredIff ==
    pc = "validated" =>
        \A i \in 1..Len(rows) : \A c \in 1..Len(rules) :
            LET col      == rules[c][1]
                required == \E k \in 1..Len(rules[c][2]) :
                                rules[c][2][k] = <<"required", TRUE>>
                absent   == col \notin DOMAIN rows[i]
                found    == IssuesAt(i - 1, col, "required")
            IN  IF required /\ (absent \/ NullByConvention(rows[i][col]))
                THEN /\ Len(found) = 1
                     /\ found[1].value = IF absent THEN NoneV ELSE rows[i][col]
                ELSE found = <<>>

\* a dataset with a required issue for an absent column and one for a null
\* text
C18_Witness ==
    /\ pc = "validated"
    /\ Len(rows) = 2
    /\ \E k \in 1..Len(issues) :
          /\ issues[k].rule = "required"
          /\ issues[k].column \notin DOMAIN rows[issues[k].row_idx + 1]
          /\ issues[k].value = NoneV
    /\ \E k \in 1..Len(issues) :
          /\ issues[k].rule = "required"
          /\ issues[k].column \in DOMAIN rows[issues[k].row_idx + 1]
          /\ issues[k].value.t = "str"

(***************************************************************************)
(* Absent columns (checked under SpecRules)                                *)
(***************************************************************************)
\* C19: a cell whose column is absent from the row gets no issue other than
\* required (unique included, since the absent cell is not tracked), and a
\* not_null issue is only ever reported for a column that is present in the
\* raw row with a null raw value.
C19_AbsentOnlyRequired ==
    pc = "validated" =>
        \A k \in 1..Len(issues) :
            LET raw_row == rows[issues[k].row_idx + 1]
                col     == issues[k].column
            IN  /\ col \notin DOMAIN raw_row => issues[k].rule = "required"
                /\ issues[k].rule = "not_null" =>
                      /\ col \in DOMAIN raw_row
                      /\ NullByConvention(raw_row[col])

\* a row lacks a column whose rule has not_null, a type, min and max, while
\* another row of the dataset has the column with a null value and is reported
C19_Witness ==
    /\ pc = "validated"
    /\ \E i \in 1..Len(rows) : \E c \in 1..Len(rules) :
          /\ rules[c][1] \notin DOMAIN rows[i]
          /\ Get(rules[c][2], "not_null", FALSE)
          /\ Has(rules[c][2], "type")
          /\ Has(rules[c][2], "max")
          /\ \A k \in 1..Len(issues) :
                (issues[k].row_idx = i - 1 /\ issues[k].column = rules[c][1])
                    => issues[k].rule = "required"
    /\ \E k \in 1..Len(issues) : issues[k].rule = "not_null"

(***************************************************************************)
(* The type rule (checked under SpecRules)                                 *)
(***************************************************************************)
\* the kinds of value that have the runtime type of a label
KindsOfLabel(tlabel) ==
    CASE tlabel = "int"   -> {"int"}
      [] tlabel = "float" -> {"int", "float"}
      [] tlabel = "bool"  -> {"bool"}
      [] tlabel = "str"   -> {"str", "none"}
      [] OTHER            -> {"datetime"}

\* C20: under a label int, float, bool, str or datetime:<fmt>, a present cell
\* gets a type issue iff its post-cast value does not have the runtime type of
\* the label, and the issue carries the raw value; so a present null cell gets
\* a type issue under int, float, bool and datetime and none under str.
C20_TypeOnInterpreted ==
    pc = "validated" =>
        \A i \in 1..Len(rows) : \A c \in 1..Len(rules) :
            LET col    == rules[c][1]
                spec   == rules[c][2]
                tlabel == Get(spec, "type", "")
                found  == IssuesAt(i - 1, col, "type")
            IN  (/\ col \in DOMAIN rows[i]
                 /\ tlabel \in {"int", "float", "bool", "str"} \cup DatetimeLabels)
                =>
                /\ IF InterpretedAt(i, col, spec).t \in KindsOfLabel(tlabel)
                   THEN found = <<>>
                   ELSE Len(found) = 1 /\ found[1].value = rows[i][col]
                /\ NullByConvention(rows[i][col]) =>
                      Len(found) = IF tlabel = "str" THEN 0 ELSE 1

\* a null text under label int is reported with the text supplied, while a
\* numeral in text form under the same label, an integer once cast, is not
C20_Witness ==
    /\ pc = "validated"
    /\ Len(rows) = 2
    /\ \E c \in 1..Len(rules) :
          /\ Get(rules[c][2], "type", "") = "int"
          /\ rules[c][1] \in DOMAIN rows[1]
          /\ rules[c][1] \in DOMAIN rows[2]
          /\ rows[1][rules[c][1]] = StrV(<<"n","u","l","l">>)
          /\ IssuesAt(0, rules[c][1], "type") # <<>>
          /\ IssuesAt(0, rules[c][1], "type")[1].value = StrV(<<"n","u","l","l">>)
          /\ rows[2][rules[c][1]] = StrV(<<"1","9">>)
          /\ IssuesAt(1, rules[c][1], "type") = <<>>

(***************************************************************************)
(* Pipeline.run (checked under SpecPipeline)                               *)
(***************************************************************************)
\* a step as it was constructed
Constructed(step) == [step EXCEPT !.log = <<>>]

\* the frame that the first k steps of the pipeline make of frame, each step
\* transforming what the step before it produced
RECURSIVE AfterSteps(_, _)
AfterSteps(frame, k) ==
    IF k = 0 THEN frame ELSE StepApply(steps[k], AfterSteps(frame, k - 1)).out

\* the frame of the survey test: two raw headers and one row
SurveyFrame == Frame(<<Q1Age, EmailAddress>>, << <<IntV(19), StrV(<<"a","@","b">>)>> >>)

\* C17: a run that returns gives the frame obtained by applying the steps in
\* list order, each to the output of the previous one, the last output being
\* the result: a PIIRemover of "email_address" placed after a HeaderNormalizer
\* removes the column the normalizer produced from "Email Address".  The frame
\* passed in is never modified.
C17_StepsInOrder ==
    /\ [](  (pc = "pipeline" /\ runs >= 1 /\ raised = "none") =>
              /\ run_out = AfterSteps(df, Len(steps))
              /\ (/\ df = SurveyFrame
                  /\ Len(steps) = 2
                  /\ Constructed(steps[1]) = HeaderNormalizer
                  /\ Constructed(steps[2]) = PIIRemover(<<email_address>>))
                    => run_out = Frame(<<q1_age>>, << <<IntV(19)>> >>) )
    /\ [][df' = df]_vars

\* the survey frame after the normalizer and the remover, its own columns
\* still being the raw headers
C17_Witness ==
    /\ pc = "pipeline"
    /\ runs >= 1
    /\ raised = "none"
    /\ df = SurveyFrame
    /\ Len(steps) = 2
    /\ Constructed(steps[1]) = HeaderNormalizer
    /\ Constructed(steps[2]) = PIIRemover(<<email_address>>)
    /\ run_out.columns = <<q1_age>>
    /\ run_out # df

(***************************************************************************)
(* Cast failures and the type rule (checked under SpecRules)               *)
(***************************************************************************)
\* the conversion of the present, non-null cell x under tlabel raises
CastFails(x, tlabel) ==
    /\ ~NullByConvention(x)
    /\ Convert(tlabel, x).exc # "none"

\* the present cells of a column with a type rule int, float or bool whose
\* cast fails, as <<row position, column, label>>
FailedCasts ==
    { f \in (1..Len(rows)) \X { <<rules[c][1], Get(rules[c][2], "type", "")>> :
                                  c \in 1..Len(rules) } :
        /\ f[2][2] \in {"int", "float", "bool"}
        /\ f[2][1] \in DOMAIN rows[f[1]]
        /\ CastFails(rows[f[1]][f[2][1]], f[2][2]) }

\* C21 as claimed: every present non-null cell whose cast fails under int,
\* float or bool gets exactly one type issue, carrying the raw value.
C21_FailureAlwaysCaught ==
    pc = "validated" =>
        \A f \in FailedCasts :
            /\ Len(IssuesAt(f[1] - 1, f[2][1], "type")) = 1
            /\ IssuesAt(f[1] - 1, f[2][1], "type")[1].value = rows[f[1]][f[2][1]]

\* C21: a present non-null cell whose cast fails under int, float or bool gets
\* exactly one type issue carrying the raw value, unless it is an integer
\* under int or float (an integer too large for a double): that cell is kept
\* and gets no type issue.
C21_FailureCaughtUnlessInteger ==
    pc = "validated" =>
        \A f \in FailedCasts :
            LET x     == rows[f[1]][f[2][1]]
                found == IssuesAt(f[1] - 1, f[2][1], "type")
            IN  IF x.t = "int" /\ f[2][2] \in {"int", "float"}
                THEN found = <<>>
                ELSE Len(found) = 1 /\ found[1].value = x

\* one dataset with a text that fails the float cast and is reported, and an
\* integer too large for a double that fails it and is not
C21_Witness ==
    /\ pc = "validated"
    /\ Len(rows) = 2
    /\ <<1, <<"price", "float">> >> \in FailedCasts
    /\ <<2, <<"price", "float">> >> \in FailedCasts
    /\ rows[1].price = StrV(<<"x">>)
    /\ rows[2].price = HugeIntV
    /\ Len(issues) = 1
    /\ issues[1].row_idx = 0
    /\ issues[1].rule = "type"

(***************************************************************************)
(* Unsupported type labels (checked under SpecRules)                       *)
(***************************************************************************)
SupportedLabels == {"int", "float", "bool", "str"} \cup DatetimeLabels

\* C22 as claimed: with a type label that is not int, float, bool, str or
\* datetime:<fmt> the call does not raise, every cell of the column is a cast
\* failure (the cell is kept), and each present non-null cell of the column
\* has an issue in the returned list.
C22_UnsupportedLabelReported ==
    pc = "validated" =>
        /\ raised = "none"
        /\ \A i \in 1..Len(rows) : \A c \in 1..Len(rules) :
              LET col == rules[c][1]
              IN  (/\ Has(rules[c][2], "type")
                   /\ Get(rules[c][2], "type", "") \notin SupportedLabels
                   /\ col \in DOMAIN rows[i]
                   /\ ~NullByConvention(rows[i][col]))
                  => /\ CastFails(rows[i][col], Get(rules[c][2], "type", ""))
                     /\ InterpretedAt(i, col, rules[c][2]) = rows[i][col]
                     /\ \E k \in 1..Len(issues) :
                           issues[k].row_idx = i - 1 /\ issues[k].column = col

(***************************************************************************)
(* min and max (checked under SpecRules)                                   *)
(***************************************************************************)
\* the number v is strictly below the integer n; a boolean counts as 1 or 0
StrictlyBelow(v, n) ==
    CASE v.t = "bool"  -> (IF v.b THEN 1 ELSE 0) < n
      [] v.t = "int"   -> ~IsHuge(v) /\ v.n < n
      [] IsInf(v)      -> v.neg
      [] OTHER         -> IF v.neg /\ (v.ip # 0 \/ v.fr # <<>>)
                          THEN v.ip > -n \/ (v.ip = -n /\ v.fr # <<>>)
                          ELSE v.ip < n

\* the number v is strictly above the integer n
StrictlyAbove(v, n) ==
    CASE v.t = "bool"  -> (IF v.b THEN 1 ELSE 0) > n
      [] v.t = "int"   -> IsHuge(v) \/ v.n > n
      [] IsInf(v)      -> ~v.neg
      [] OTHER         -> IF v.neg /\ (v.ip # 0 \/ v.fr # <<>>)
                          THEN v.ip < -n
                          ELSE v.ip > n \/ (v.ip = n /\ v.fr # <<>>)

\* C23: a present cell gets a min issue iff its interpreted value is a number
\* (an integer, a float, or a boolean, which counts as 1 or 0) strictly below
\* min, and a max issue iff it is a number strictly above max; a value equal
\* to a bound gets neither, and a text or null value never gets one.
C23_InclusiveBounds ==
    pc = "validated" =>
        \A i \in 1..Len(rows) : \A c \in 1..Len(rules) :
            LET col  == rules[c][1]
                spec == rules[c][2]
            IN  col \in DOMAIN rows[i] =>
                  LET Bounded(v) ==
                        /\ Len(IssuesAt(i - 1, col, "min")) =
                              IF /\ Has(spec, "min")
                                 /\ v.t \in {"int", "float", "bool"}
                                 /\ StrictlyBelow(v, Get(spec, "min", 0))
                              THEN 1 ELSE 0
                        /\ Len(IssuesAt(i - 1, col, "max")) =
                              IF /\ Has(spec, "max")
                                 /\ v.t \in {"int", "float", "bool"}
                                 /\ StrictlyAbove(v, Get(spec, "max", 0))
                              THEN 1 ELSE 0
                        /\ v.t \in {"str", "none"} =>
                              /\ IssuesAt(i - 1, col, "min") = <<>>
                              /\ IssuesAt(i - 1, col, "max") = <<>>
                        /\ (v.t = "int" /\ ~IsHuge(v) /\ Has(spec, "min") /\ Has(spec, "max")
                              /\ (v.n = Get(spec, "min", 0) \/ v.n = Get(spec, "max", 0)))
                             => /\ v.n >= Get(spec, "min", 0) => IssuesAt(i - 1, col, "min") = <<>>
                                /\ v.n <= Get(spec, "max", 0) => IssuesAt(i - 1, col, "max") = <<>>
                  IN  Bounded(InterpretedAt(i, col, spec))

\* under min 1 and max 3 on a float column: 0.5 is below min, 3.5 above max
C23_Witness ==
    /\ pc = "validated"
    /\ Len(rows) = 2
    /\ rules = << <<"score", << <<"type", "float">>, <<"min", 1>>, <<"max", 3>> >> >> >>
    /\ IssueKeys = << <<0, "score", "min">>, <<1, "score", "max">> >>
    /\ issues[1].value = FloatV(FALSE, 0, <<5>>)
    /\ issues[2].value = FloatV(FALSE, 3, <<5>>)

(***************************************************************************)
(* The allowed rule (checked under SpecRules)                              *)
(***************************************************************************)
\* v equals the member w of an allowed set: numbers by their value (the
\* members that are numbers are integers or booleans), the rest by identity
EqualsMember(v, w) ==
    IF v.t \in {"int", "float", "bool"} /\ w.t \in {"int", "bool"}
    THEN LET ValueIs(n) == ~StrictlyBelow(v, n) /\ ~StrictlyAbove(v, n)
         IN  ValueIs(IF w.t = "bool" THEN (IF w.b THEN 1 ELSE 0) ELSE w.n)
    ELSE v = w

\* C24: a present cell gets an allowed issue iff its post-cast value is
\* non-null and equal to no member of the allowed set; with type int and
\* allowed {"1", "2"} (texts) the raw cell "1" gets one, and a null cell never
\* gets one.
C24_AllowedOnInterpreted ==
    pc = "validated" =>
        /\ \A i \in 1..Len(rows) : \A c \in 1..Len(rules) :
              LET col  == rules[c][1]
                  spec == rules[c][2]
              IN  (col \in DOMAIN rows[i] /\ Has(spec, "allowed")) =>
                    LET Looked(v) ==
                          /\ Len(IssuesAt(i - 1, col, "allowed")) =
                                IF /\ ~NullByConvention(v)
                                   /\ \A w \in Get(spec, "allowed", {}) : ~EqualsMember(v, w)
                                THEN 1 ELSE 0
                          /\ NullByConvention(rows[i][col]) =>
                                IssuesAt(i - 1, col, "allowed") = <<>>
                    IN  Looked(InterpretedAt(i, col, spec))
        /\ (/\ rows = << [code |-> StrV(<<"1">>)] >>
            /\ rules = << <<"code", << <<"type", "int">>,
                                       <<"allowed", {StrV(<<"1">>), StrV(<<"2">>)}>> >> >> >>)
              => /\ IssueKeys = << <<0, "code", "allowed">> >>
                 /\ issues[1].value = IntV(1)

\* the text "1" under type int and allowed {"1", "2"} gets an allowed issue,
\* the null text beside it a type issue only
C24_Witness ==
    /\ pc = "validated"
    /\ rows = << [code |-> StrV(<<"1">>)], [code |-> StrV(<<"n","a">>)] >>
    /\ Has(rules[1][2], "type")
    /\ IssueKeys = << <<0, "code", "allowed">>, <<1, "code", "type">> >>

(***************************************************************************)
(* Independence of the rule keys (checked under SpecRules)                 *)
(***************************************************************************)
\* the rule keys reported for row index idx and column col, in issue order
KeysOfCell(idx, col) ==
    LET found == SelectSeq(issues, LAMBDA i : i.row_idx = idx /\ i.column = col
                                                /\ i.rule # "unique")
    IN  [k \in 1..Len(found) |-> found[k].rule]

\* the specification of a column cut down to its type and one more rule key
Only(spec, key) == SelectSeq(spec, LAMBDA item : item[1] \in {"type", key})

\* C25: the rule keys of a column are checked independently, none ending the
\* checks of the cell: a cell gets an issue of a rule key exactly when it gets
\* one under the column's type and that key alone.  So one cell can get
\* several issues in one call: the integer 5 under type bool and min 10 gets
\* a type issue and a min issue.
C25_KeysIndependent ==
    pc = "validated" =>
        /\ \A i \in 1..Len(rows) : \A c \in 1..Len(rules) : \A k \in 1..Len(rules[c][2]) :
              LET col == rules[c][1]
                  key == rules[c][2][k][1]
                  Alone(crow) ==
                      LET found == CellIssues(i - 1, rows[i], crow, col, Only(rules[c][2], key))
                      IN  \E n \in 1..Len(found) : found[n].rule = key
              IN  key \notin {"type", "unique"} =>
                    ((\E n \in 1..Len(KeysOfCell(i - 1, col)) : KeysOfCell(i - 1, col)[n] = key)
                        <=> Alone(CastedRows(<<rows[i]>>, rules)[1].out))
        /\ (/\ rows = << [consent |-> IntV(5)] >>
            /\ rules = << <<"consent", << <<"type", "bool">>, <<"min", 10>> >> >> >>)
              => IssueKeys = << <<0, "consent", "type">>, <<0, "consent", "min">> >>

\* the integer 5 under type bool and min 10: a type issue and a min issue for
\* the one cell
C25_Witness ==
    /\ pc = "validated"
    /\ rows = << [consent |-> IntV(5)] >>
    /\ KeysOfCell(0, "consent") = <<"type", "min">>

(***************************************************************************)
(* Order of the issues of a row (checked under SpecRules)                  *)
(***************************************************************************)
\* the position at which the specification of column col declares key
DeclaredAt(col, key) ==
    CHOOSE k \in 1..Len(SpecOf(col)) : SpecOf(col)[k][1] = key

\* the position of column col in the rules mapping
ColumnAt(col) == CHOOSE c \in 1..Len(rules) : rules[c][1] = col

\* the row-wise issues: those before the uniqueness issues
RowWiseIssues == SelectSeq(issues, LAMBDA i : i.rule # "unique")

\* C26 as claimed: within one row and one column the issues appear in the
\* order in which the column's specification declares the failing rule keys,
\* and the columns of a row follow the order of the rules mapping.
C26_DeclarationOrder ==
    pc = "validated" =>
        \A a \in 1..Len(RowWiseIssues) : \A b \in (a + 1)..Len(RowWiseIssues) :
            LET x == RowWiseIssues[a]
                y == RowWiseIssues[b]
            IN  x.row_idx = y.row_idx =>
                  IF x.column = y.column
                  THEN DeclaredAt(x.column, x.rule) < DeclaredAt(y.column, y.rule)
                  ELSE ColumnAt(x.column) < ColumnAt(y.column)

(***************************************************************************)
(* The unique issues of a column (checked under SpecRules)                 *)
(***************************************************************************)
\* the unique issues reported for column col, in issue order
UniqueIssuesFor(col) ==
    SelectSeq(issues, LAMBDA i : i.rule = "unique" /\ i.column = col)

\* C27: for each column with unique true the unique issues come in strictly
\* ascending row_idx order (so at most one per row), each carries the raw
\* value of its own row for the column, and none is for a row whose value is
\* null: two null cells are not duplicates of each other.
C27_UniqueIssuesShape ==
    pc = "validated" =>
        \A c \in 1..Len(rules) :
            LET col   == rules[c][1]
                found == UniqueIssuesFor(col)
            IN  /\ \A k \in 1..(Len(found) - 1) : found[k].row_idx < found[k + 1].row_idx
                /\ \A k \in 1..Len(found) :
                      LET raw_row == rows[found[k].row_idx + 1]
                      IN  /\ \E item \in { rules[c][2][n] : n \in 1..Len(rules[c][2]) } :
                                item = <<"unique", TRUE>>
                          /\ col \in DOMAIN raw_row
                          /\ found[k].value = raw_row[col]
                          /\ ~NullByConvention(raw_row[col])
                /\ (\A i \in 1..Len(rows) :
                        col \in DOMAIN rows[i] => NullByConvention(rows[i][col]))
                      => found = <<>>

\* two rows with the same name are both reported, each with its own value
C27_Witness ==
    /\ pc = "validated"
    /\ rows = << [name |-> StrV(<<"A","l">>)], [name |-> StrV(<<"A","l">>)] >>
    /\ Len(UniqueIssuesFor("name")) = 2
    /\ UniqueIssuesFor("name")[1].row_idx = 0
    /\ UniqueIssuesFor("name")[2].row_idx = 1

(***************************************************************************)
(* One null convention (checked under SpecCast)                            *)
(***************************************************************************)
\* C28: the caster and the validator have the same null values: for every
\* value x, to_none_if_blank(x) is None iff is_null(x), which is so iff x is
\* None or a text whose trimmed, case-folded form is "", "na", "n/a" or
\* "null"; hence a cell of a typed column is cast to None exactly when the
\* validator takes the raw cell for null.
C28_SameNullConvention ==
    Returned =>
        \A c \in DOMAIN row :
            /\ (to_none_if_blank(row[c]) = NoneV) <=> is_null(row[c])
            /\ is_null(row[c]) <=> NullByConvention(row[c])
            /\ c \in Keys(type_map) => ((out[c] = NoneV) <=> is_null(row[c]))

\* a padded, capitalised null token that both take for null, beside a text
\* that neither does
C28_Witness ==
    /\ pc = "cast"
    /\ DOMAIN row = {"age", "consent"}
    /\ Keys(type_map) = {"age", "consent"}
    /\ row["age"] = StrV(<<" ","n","u","l","l"," ">>)
    /\ is_null(row["age"]) /\ out["age"] = NoneV
    /\ row["consent"] = StrV(<<"o","o","p","s">>)
    /\ ~is_null(row["consent"]) /\ out["consent"] # NoneV

(***************************************************************************)
(* Pipeline.history (checked under SpecPipeline)                           *)
(***************************************************************************)
\* the name of the step that wrote a log line
NameOfLine(line) == line[1]

\* C29 as claimed: each run appends one log entry per executed step, in step
\* order, so after k successful runs of a pipeline with n steps the history
\* holds k*n entries, run after run in step order, and each step's name occurs
\* k times for each step of that name.
C29_OneEntryPerStepAndRun ==
    (pc = "pipeline" /\ raised = "none") =>
        /\ Len(history) = runs * Len(steps)
        /\ \A k \in 1..Len(history) :
              NameOfLine(history[k]) = steps[((k - 1) % Len(steps)) + 1].name

(***************************************************************************)
(* Dataset.clean_headers (checked under SpecDataset)                       *)
(***************************************************************************)
\* the number of items of the row dict d whose value is v
CountOf(d, v) == Cardinality({ k \in 1..Len(d) : d[k][2] = v })

\* C30 as claimed: clean_headers only renames: after the call every row has
\* the same number of columns and the same multiset of values as before, each
\* key being normalize_header of the old key, also when two headers of one
\* row normalize to the same name.
C30_OnlyRenames ==
    cleans >= 1 =>
        /\ ds_cleaned
        /\ Len(ds_rows) = Len(snapshot)
        /\ \A i \in 1..Len(snapshot) :
              /\ Len(ds_rows[i]) = Len(snapshot[i])
              /\ \A k \in 1..Len(snapshot[i]) :
                    /\ CountOf(ds_rows[i], snapshot[i][k][2])
                          = CountOf(snapshot[i], snapshot[i][k][2])
                    /\ \E n \in 1..Len(ds_rows[i]) :
                          ds_rows[i][n][1] = normalize_header(snapshot[i][k][1])

====
